---- MODULE Spec2Model ----
(***************************************************************************)
(* A model of ScanForge's point-cloud codec engine:                        *)
(*   - the LZF compression codec            (src/src/LZFCodec.hpp)         *)
(*   - the LAS fixed-format record codec    (src/src/LASProcessor.hpp)     *)
(*   - the PCD field-table codec            (src/src/PCDLoader.hpp)        *)
(*   - the point collection                 (src/src/PointCloudTypes.hpp)  *)
(*                                                                         *)
(* A byte is an integer 0..255.  Each component has its own variables and  *)
(* its own specification; a specification leaves the other components     *)
(* idle.                                                                   *)
(***************************************************************************)
EXTENDS Integers, Sequences, FiniteSets, TLC

VARIABLES
    \* ---- LZF codec -------------------------------------------------------
    lzMode,     \* "roundtrip": the stream is compress(lzSrc); "raw": any stream
    lzSrc,      \* the bytes handed to compress
    lzIn,       \* the compressed stream handed to decompress
    lzCap,      \* expectedSize: the capacity of the output buffer
    lzBuf,      \* the output buffer (expectedSize bytes, zero-initialised)
    lzIp,       \* decompress_generic: input bytes consumed  (ip - begin)
    lzOp,       \* decompress_generic: output bytes produced (op - out_start)
    lzPc,       \* "idle" | "compress" | "decode" | "done"
    lzRet,      \* result of decompress_generic (the byte-level decompress)
    lzVec,      \* result of the vector decompress
    \* ---- LAS processor --------------------------------------------------
    lasHdr,     \* the LASHeader of the file's writer (saveLAS's argument)
    lasParsed,  \* loadLAS: the header parseHeader filled
    lasSrc,     \* the points handed to saveLAS (<<>> for a file of another writer)
    lasOwn,     \* TRUE: the point data was written by saveLAS
    lasData,    \* the file's bytes, header included
    lasPos,     \* the stream's read position in lasData
    lasI,       \* loadPointData: the loop index i
    lasNum,     \* loadPointData: numPoints, the loop bound
    lasWork,    \* loadPointData: the collection being built
    lasPc,      \* "idle" | "create" | "save" | "open" | "points" | "done"
    lasOk,      \* loadLAS decoded the file (it did not take an error return)
    lasCloud,   \* the collection loadLAS returns
    \* ---- PCD loader -----------------------------------------------------
    pcdHdr,     \* the PCDHeader handed to savePCD
    pcdSrc,     \* the points handed to savePCD (the records of a foreign file)
    pcdOwn,     \* TRUE: the file was written by savePCD
    pcdFile,    \* the file: [hdr, bytes, lines] (header, binary payload, text payload)
    pcdSaved,   \* savePCD's result
    pcdBuf,     \* the data vector handed to parseBinaryData
    pcdI,       \* the decode loop's index i
    pcdWork,    \* the collection being built
    pcdPc,      \* "idle" | "save" | "open" | "binary" | "ascii" | "done"
                \* | "used" (the caller has changed the collection)
                \* | "header" (the caller has made a header for it)
    pcdOk,      \* loadPCD decoded the file (it did not take an error return)
    pcdThrown,  \* an exception left loadPCD
    pcdCloud,   \* the collection loadPCD returns
    \* ---- LAS point -------------------------------------------------------
    ptPoint,    \* a LASPoint: [returnInfo, scanDirection, edgeOfFlightLine]
    ptArgs      \* the arguments of the last setReturnInfo call on it

lzVars == <<lzMode, lzSrc, lzIn, lzCap, lzBuf, lzIp, lzOp, lzPc, lzRet, lzVec>>

lasVars == <<lasHdr, lasParsed, lasSrc, lasOwn, lasData, lasPos, lasI, lasNum, lasWork,
             lasPc, lasOk, lasCloud>>

pcdVars == <<pcdHdr, pcdSrc, pcdOwn, pcdFile, pcdSaved, pcdBuf, pcdI, pcdWork,
             pcdPc, pcdOk, pcdThrown, pcdCloud>>

ptVars == <<ptPoint, ptArgs>>

vars == <<lzVars, lasVars, pcdVars, ptVars>>

\* What an action of one component leaves alone.
LzfFrame == UNCHANGED <<lasVars, pcdVars, ptVars>>
LasFrame == UNCHANGED <<lzVars, pcdVars, ptVars>>
PcdFrame == UNCHANGED <<lzVars, lasVars, ptVars>>
PtFrame == UNCHANGED <<lzVars, lasVars, pcdVars>>

(***************************************************************************)
(* Bounds of the model.                                                    *)
(***************************************************************************)
MaxLen    == 64   \* longest byte sequence handed to compress
MaxReturnArg == 17 \* largest return number handed to setReturnInfo
MaxRawLen == 5    \* longest hand-made compressed stream
MaxRawCap == 10   \* largest output capacity tried on a hand-made stream
MaxPoints == 2    \* most points of a LAS collection, most records declared
MaxCut    == 1    \* most bytes missing at the end of a LAS or PCD payload
MaxDeclared == 2  \* most points a foreign PCD header declares
MaxLines  == 2    \* most lines of a foreign ascii payload

(***************************************************************************)
(* Generic helpers.                                                        *)
(***************************************************************************)
Min(a, b) == IF a < b THEN a ELSE b

Zeros(n) == [i \in 1..n |-> 0]

Prefix(s, n) == SubSeq(s, 1, n)

SeqsUpTo(S, n) == UNION {[1..k -> S] : k \in 0..n}

(***************************************************************************)
(* LZF codec: compress.                                                    *)
(***************************************************************************)
\* The longest literal run of one control byte (the inner loop's bound).
MaxLiteralRun == 31

\* The control byte of a literal run of literal_count bytes.
LiteralCtrl_Off(literal_count) == literal_count

LiteralCtrl(literal_count) == literal_count - 1

\* compress_generic from input position ip (bytes consumed) with out the
\* bytes written so far and capacity the size of the output range.
\* Returns the written bytes, or <<>> with ok = FALSE when space runs out.
RECURSIVE compress_generic(_, _, _, _)
compress_generic(in, ip, out, capacity) ==
    IF ip = Len(in) THEN [ok |-> TRUE, out |-> out]
    ELSE LET literal_count == Min(MaxLiteralRun, Len(in) - ip)
         IN  IF capacity - Len(out) < literal_count + 1
             THEN [ok |-> FALSE, out |-> <<>>]
             ELSE compress_generic(in, ip + literal_count,
                      out \o <<LiteralCtrl(literal_count)>>
                          \o SubSeq(in, ip + 1, ip + literal_count),
                      capacity)

\* The vector compress: worst-case buffer, empty vector on a zero result.
maxCompressedSize(n) == n + (n \div 8) + 16

compress(uncompressed) ==
    LET r == compress_generic(uncompressed, 0, <<>>,
                              maxCompressedSize(Len(uncompressed)))
        compressedSize == IF r.ok THEN Len(r.out) ELSE 0
    IN  IF compressedSize = 0 THEN <<>> ELSE r.out

(***************************************************************************)
(* LZF codec: decompress_generic, one loop iteration per action.           *)
(***************************************************************************)
\* Bytes of lzBuf from position from+1 on, n of them, each read after the
\* bytes before it were written (a byte-by-byte copy that may overlap).
CopyBackRef_Block(buf, op, ref, n) ==
    [i \in 1..Len(buf) |-> IF i \in (op + 1)..(op + n) THEN buf[i - (op - ref)]
                           ELSE buf[i]]

RECURSIVE CopyBackRef(_, _, _, _)
CopyBackRef(buf, op, ref, n) ==
    IF n = 0 THEN buf
    ELSE CopyBackRef([buf EXCEPT ![op + 1] = buf[ref + 1]], op + 1, ref + 1, n - 1)

RECURSIVE CopyLiteral(_, _, _, _, _)
CopyLiteral(buf, op, in, ip, n) ==
    IF n = 0 THEN buf
    ELSE CopyLiteral([buf EXCEPT ![op + 1] = in[ip + 1]], op + 1, in, ip + 1, n - 1)

\* while (ip != in_end && op != out_end)
LoopCond(in, cap, ip, op) == ip # Len(in) /\ op # cap

\* The body of the loop for ctrl < 32: a literal run of ctrl + 1 bytes.
\* ok = FALSE is the "return 0" of an error branch.
DecodeLiteral(in, cap, buf, ip, op) ==
    LET ctrl    == in[ip + 1]
        ip1     == ip + 1
        run_len == ctrl + 1
    IN  IF cap - op < run_len \/ Len(in) - ip1 < run_len
        THEN [ok |-> FALSE, buf |-> buf, ip |-> ip1, op |-> op]
        ELSE [ok |-> TRUE, buf |-> CopyLiteral(buf, op, in, ip1, run_len),
              ip |-> ip1 + run_len, op |-> op + run_len]

\* The body of the loop for ctrl >= 32: a back reference.
DecodeBackRef(in, cap, buf, ip, op) ==
    LET ctrl == in[ip + 1]
        ip1  == ip + 1
        len0 == ctrl \div 32                                 \* ctrl >> 5
        fail(at) == [ok |-> FALSE, buf |-> buf, ip |-> at, op |-> op]
    IN  IF ip1 = Len(in) THEN fail(ip1)                      \* truncated input
        ELSE IF len0 = 7 /\ ip1 + 1 = Len(in) THEN fail(ip1 + 1)
        ELSE LET len      == IF len0 = 7 THEN len0 + in[ip1 + 1] ELSE len0
                 ip2      == IF len0 = 7 THEN ip1 + 1 ELSE ip1
                 offset   == ((ctrl % 32) * 256) + in[ip2 + 1] + 1
                 ip3      == ip2 + 1
                 copy_len == len + 2
             IN  IF op < offset THEN fail(ip3)               \* invalid back reference
                 ELSE IF cap - op < copy_len THEN fail(ip3)  \* not enough space
                 ELSE [ok |-> TRUE,
                       buf |-> CopyBackRef(buf, op, op - offset, copy_len),
                       ip |-> ip3, op |-> op + copy_len]

DecodeChunk(in, cap, buf, ip, op) ==
    IF in[ip + 1] < 32 THEN DecodeLiteral(in, cap, buf, ip, op)
    ELSE DecodeBackRef(in, cap, buf, ip, op)

(***************************************************************************)
(* LZF codec: the buffer positions one loop iteration touches.  The loop   *)
(* of LZFDecompressor::decompress_generic is the same text, and that of    *)
(* codec::LZFCodec::decompress differs in the literal copy (std::copy_n    *)
(* over the same ranges) and in comparing the same distances as signed     *)
(* values; the three share this model.                                     *)
(***************************************************************************)
\* the byte *ip would give at input position k
ByteAt(in, k) == IF k < Len(in) THEN in[k + 1] ELSE 0

\* a literal run: the input positions dereferenced (ctrl, then the run)
LiteralInputReads(in, cap, ip, op) ==
    LET run_len == ByteAt(in, ip) + 1
    IN  IF cap - op < run_len \/ Len(in) - (ip + 1) < run_len
        THEN {ip}
        ELSE ip..(ip + run_len)

BackRefInputReads_NoTruncationTest(in, ip) ==
    IF ip + 1 = Len(in) THEN {ip}
    ELSE IF ByteAt(in, ip) \div 32 = 7 THEN {ip, ip + 1, ip + 2}
    ELSE {ip, ip + 1}

\* a back reference: the input positions dereferenced (ctrl, the extension
\* byte when len == 7, the low byte of the offset), each after the test for
\* in_end that precedes it
BackRefInputReads(in, ip) ==
    IF ip + 1 = Len(in) THEN {ip}
    ELSE IF ByteAt(in, ip) \div 32 = 7
         THEN (IF ip + 2 = Len(in) THEN {ip, ip + 1} ELSE {ip, ip + 1, ip + 2})
         ELSE {ip, ip + 1}

InputReads(in, cap, ip, op) ==
    IF ByteAt(in, ip) < 32 THEN LiteralInputReads(in, cap, ip, op)
    ELSE BackRefInputReads(in, ip)

\* the output positions written: op up to the new op, none on a return 0
OutputWrites(in, cap, buf, ip, op) ==
    LET r == DecodeChunk(in, cap, buf, ip, op)
    IN  IF r.ok THEN op..(r.op - 1) ELSE {}

\* a back reference that copies: the output positions read through ref, each
\* paired with the number of output bytes written when it is read
BackRefOutputReads(in, cap, buf, ip, op) ==
    LET r == DecodeChunk(in, cap, buf, ip, op)
        extended == ByteAt(in, ip) \div 32 = 7
        offset == ((ByteAt(in, ip) % 32) * 256)
                    + ByteAt(in, IF extended THEN ip + 2 ELSE ip + 1) + 1
    IN  IF ByteAt(in, ip) >= 32 /\ r.ok
        THEN {<<op - offset + i, op + i>> : i \in 0..(r.op - op - 1)}
        ELSE {}

\* decompress_generic run to its return: [ret, buf]
RECURSIVE decompress_generic(_, _, _, _, _)
decompress_generic(in, cap, buf, ip, op) ==
    IF ~LoopCond(in, cap, ip, op) THEN [ret |-> op, buf |-> buf]
    ELSE LET r == DecodeChunk(in, cap, buf, ip, op)
         IN  IF ~r.ok THEN [ret |-> 0, buf |-> r.buf]
             ELSE decompress_generic(in, cap, r.buf, r.ip, r.op)

\* The vector decompress's verdict on decompress_generic's result.
VectorResult(decompressedSize, expectedSize, buf) ==
    IF decompressedSize # expectedSize THEN <<>> ELSE buf

\* The vector decompress, start to end.
decompress(compressed, expectedSize) ==
    LET r == decompress_generic(compressed, expectedSize, Zeros(expectedSize), 0, 0)
    IN  VectorResult(r.ret, expectedSize, r.buf)

LzfFinish(ret, buf) ==
    /\ lzPc' = "done"
    /\ lzRet' = ret
    /\ lzVec' = VectorResult(ret, lzCap, buf)

\* one iteration of the loop, either branch
LzfChunk(r) ==
    \/ /\ ~r.ok                                  \* return 0
       /\ LzfFinish(0, lzBuf)
       /\ UNCHANGED <<lzBuf, lzIp, lzOp>>
    \/ /\ r.ok
       /\ lzBuf' = r.buf
       /\ lzIp' = r.ip
       /\ lzOp' = r.op
       /\ UNCHANGED <<lzPc, lzRet, lzVec>>

\* ctrl < 32: a literal run
LzfLiteral ==
    /\ LzfFrame
    /\ lzPc = "decode"
    /\ LoopCond(lzIn, lzCap, lzIp, lzOp)
    /\ lzIn[lzIp + 1] < 32
    /\ LzfChunk(DecodeLiteral(lzIn, lzCap, lzBuf, lzIp, lzOp))
    /\ UNCHANGED <<lzMode, lzSrc, lzIn, lzCap>>

\* ctrl >= 32: a back reference
LzfBackRef ==
    /\ LzfFrame
    /\ lzPc = "decode"
    /\ LoopCond(lzIn, lzCap, lzIp, lzOp)
    /\ lzIn[lzIp + 1] >= 32
    /\ LzfChunk(DecodeBackRef(lzIn, lzCap, lzBuf, lzIp, lzOp))
    /\ UNCHANGED <<lzMode, lzSrc, lzIn, lzCap>>

\* the loop ends: return distance(out_start, op)
LzfReturn ==
    /\ LzfFrame
    /\ lzPc = "decode"
    /\ ~LoopCond(lzIn, lzCap, lzIp, lzOp)
    /\ LzfFinish(lzOp, lzBuf)
    /\ UNCHANGED <<lzMode, lzSrc, lzIn, lzCap, lzBuf, lzIp, lzOp>>

\* LZFCodec::compress(vector) of the source bytes; its result is then handed
\* to the vector decompress, which allocates the output buffer.
LzfCompress ==
    /\ LzfFrame
    /\ lzPc = "compress"
    /\ lzIn' = compress(lzSrc)
    /\ lzPc' = "decode"
    /\ UNCHANGED <<lzMode, lzSrc, lzCap, lzBuf, lzIp, lzOp, lzRet, lzVec>>

\* The byte sequences handed to compress: the unit tests' pattern
\* (i * a + b) % 256, of every length up to MaxLen.
PatternSeeds == {<<7, 13>>, <<0, 255>>, <<1, 0>>}

Pattern(seed, n) == [i \in 1..n |-> ((i - 1) * seed[1] + seed[2]) % 256]

\* The bytes hand-made streams are built of: literal controls 0 and 1,
\* back-reference controls 32 (length 1) and 224 (length 7 + extension).
RawBytes == {0, 1, 32, 224}

LzfInitRoundTrip ==
    /\ lzMode = "roundtrip"
    /\ \E n \in 0..MaxLen, seed \in PatternSeeds : lzSrc = Pattern(seed, n)
    /\ lzIn = <<>>
    /\ lzCap \in 0..(Len(lzSrc) + 1)
    /\ lzPc = "compress"

LzfInitRaw ==
    /\ lzMode = "raw"
    /\ lzSrc = <<>>
    /\ lzIn \in SeqsUpTo(RawBytes, MaxRawLen)
    /\ lzCap \in 0..MaxRawCap
    /\ lzPc = "decode"

LzfInit ==
    /\ (LzfInitRoundTrip \/ LzfInitRaw)
    /\ lzBuf = Zeros(lzCap)
    /\ lzIp = 0
    /\ lzOp = 0
    /\ lzRet = 0
    /\ lzVec = <<>>

LzfIdle ==
    /\ lzMode = "idle" /\ lzSrc = <<>> /\ lzIn = <<>> /\ lzCap = 0
    /\ lzBuf = <<>> /\ lzIp = 0 /\ lzOp = 0 /\ lzPc = "idle"
    /\ lzRet = 0 /\ lzVec = <<>>

LzfNext == LzfCompress \/ LzfLiteral \/ LzfBackRef \/ LzfReturn

(***************************************************************************)
(* Numbers.  A coordinate, scale factor or offset is a whole number of     *)
(* ticks, one tick being a fixed power of two (0.01 is taken as 10 ticks). *)
(* Sums and products of the model's values are exact in double precision;  *)
(* a quotient is only ever truncated.  A float32 value is a number of      *)
(* ticks with at most 24 significant bits.                                 *)
(***************************************************************************)
Abs(a) == IF a < 0 THEN -a ELSE a

RECURSIVE Pow2(_)
Pow2(n) == IF n = 0 THEN 1 ELSE 2 * Pow2(n - 1)

\* The spacing of float32 values around magnitude a (1 below 2^24).
RECURSIVE Ulp32(_, _)
Ulp32(a, u) == IF a < 16777216 * u THEN u ELSE Ulp32(a, 2 * u)

\* static_cast<float>(double): round to nearest, ties to even.
ToFloat32(v) ==
    LET a    == Abs(v)
        u    == Ulp32(a, 1)
        r    == a % u
        down == a - r
        near == IF 2 * r < u THEN down
                ELSE IF 2 * r > u THEN down + u
                ELSE IF (down \div u) % 2 = 0 THEN down ELSE down + u
    IN  IF v < 0 THEN -near ELSE near

\* Division rounded toward zero: what static_cast<int32_t> makes of a double
\* quotient (every quotient of the model fits 32 bits).
TruncDiv(a, b) ==
    LET q == Abs(a) \div Abs(b)
    IN  IF (a < 0) = (b < 0) THEN q ELSE -q

\* Division rounded to the nearest integer, halves away from zero.
RoundDiv(a, b) ==
    LET q == (2 * Abs(a) + Abs(b)) \div (2 * Abs(b))
    IN  IF (a < 0) = (b < 0) THEN q ELSE -q

\* n bytes of v, little-endian, two's complement.
LE(v, n) == [i \in 1..n |-> (v \div Pow2(8 * (i - 1))) % 256]

\* 8 bytes of v, little-endian, two's complement.
LE8(v) == LE(v, 4) \o (IF v < 0 THEN <<255, 255, 255, 255>> ELSE <<0, 0, 0, 0>>)

\* the unsigned value of little-endian bytes
RECURSIVE LEValue(_)
LEValue(bytes) ==
    IF bytes = <<>> THEN 0 ELSE Head(bytes) + 256 * LEValue(Tail(bytes))

\* the value readBinary stores from the n bytes at pos
UIntAt(data, pos, n) == LEValue(SubSeq(data, pos + 1, pos + n))

U16At(data, pos) == data[pos + 1] + 256 * data[pos + 2]

Int32At(data, pos) ==
    data[pos + 1] + 256 * data[pos + 2] + 65536 * data[pos + 3]
      + 16777216 * (IF data[pos + 4] >= 128 THEN data[pos + 4] - 256 ELSE data[pos + 4])

(***************************************************************************)
(* The point collection (PointCloudTypes.hpp).                             *)
(***************************************************************************)
\* PointCloud(): no points, width = height = 0, is_dense = true
EmptyCloud == [points |-> <<>>, width |-> 0, height |-> 0, is_dense |-> TRUE]

push_back(cloud, point) == [cloud EXCEPT !.points = Append(@, point)]

\* clear(): no points, width = height = 0, is_dense = true
clear(cloud) == [cloud EXCEPT !.points = <<>>, !.width = 0, !.height = 0,
                              !.is_dense = TRUE]

White == [r |-> 255, g |-> 255, b |-> 255]

(***************************************************************************)
(* LAS: the header's pure functions.                                       *)
(***************************************************************************)
isValidLAS_AnyVersion(h) == h.signature = "LASF"

\* LASHeader::isValid
isValidLAS(h) == h.signature = "LASF" /\ h.versionMajor = 1 /\ h.versionMinor >= 2

getTotalPointCount_Legacy(h) == h.legacyNumberOfPointRecords

getTotalPointCount(h) ==
    IF h.versionMajor = 1 /\ h.versionMinor >= 4
    THEN h.numberOfPointRecords
    ELSE h.legacyNumberOfPointRecords

hasRGB(h) == h.pointDataRecordFormat \in {2, 3, 7, 8, 10}

hasGPSTime(h) ==
    \/ h.pointDataRecordFormat \in {1, 3, 4, 5}
    \/ h.pointDataRecordFormat >= 6

\* readPointRecord's test for the near-infrared value
readsNIR(h) == h.pointDataRecordFormat = 8 \/ h.pointDataRecordFormat = 10

getPointRecordLength_Base(format) == 20

getPointRecordLength(format) ==
    CASE format = 0  -> 20
      [] format = 1  -> 28
      [] format = 2  -> 26
      [] format = 3  -> 34
      [] format = 4  -> 57
      [] format = 5  -> 63
      [] format = 6  -> 30
      [] format = 7  -> 36
      [] format = 8  -> 38
      [] format = 9  -> 59
      [] format = 10 -> 67
      [] OTHER       -> 20

(***************************************************************************)
(* LAS: one point record.                                                  *)
(***************************************************************************)
\* writePointRecord: the bytes written for one point
writePointRecord(h, point) ==
    LET x == TruncDiv(point.x - h.xOffset, h.xScaleFactor)
        y == TruncDiv(point.y - h.yOffset, h.yScaleFactor)
        z == TruncDiv(point.z - h.zOffset, h.zScaleFactor)
        intensity      == 0
        returnInfo     == 17        \* 0x11: return 1 of 1
        classification == 1         \* unclassified
        scanAngle      == 0
        userData       == 0
        pointSourceID  == 0
    IN  LE(x, 4) \o LE(y, 4) \o LE(z, 4)
        \o LE(intensity, 2) \o <<returnInfo, classification, scanAngle, userData>>
        \o LE(pointSourceID, 2)
        \o (IF hasGPSTime(h) THEN Zeros(8) ELSE <<>>)          \* gpsTime = 0.0
        \o (IF hasRGB(h)
            THEN LE(point.r * 256, 2) \o LE(point.g * 256, 2) \o LE(point.b * 256, 2)
            ELSE <<>>)

RECURSIVE writePointData(_, _)
writePointData(h, points) ==
    IF points = <<>> THEN <<>>
    ELSE writePointRecord(h, Head(points)) \o writePointData(h, Tail(points))

\* The bytes readPointRecord asks the stream for, in order; a read that the
\* stream cannot fill makes it return false.
RecordReadSize(h) ==
    12 + 8 + (IF hasGPSTime(h) THEN 8 ELSE 0) + (IF hasRGB(h) THEN 6 ELSE 0)
       + (IF readsNIR(h) THEN 2 ELSE 0)

\* readPointRecord at position pos: [ok, pos, point]
readPointRecord(data, pos, h) ==
    IF Len(data) - pos < RecordReadSize(h)
    THEN [ok |-> FALSE, pos |-> pos, point |-> White]
    ELSE LET x == Int32At(data, pos)
             y == Int32At(data, pos + 4)
             z == Int32At(data, pos + 8)
             rgbAt == pos + 20 + (IF hasGPSTime(h) THEN 8 ELSE 0)
             color == IF hasRGB(h)
                      THEN [r |-> U16At(data, rgbAt) \div 256,
                            g |-> U16At(data, rgbAt + 2) \div 256,
                            b |-> U16At(data, rgbAt + 4) \div 256]
                      ELSE White                       \* LASPoint's default
         IN  [ok |-> TRUE, pos |-> pos + RecordReadSize(h),
              point |-> [x |-> ToFloat32(x * h.xScaleFactor + h.xOffset),
                         y |-> ToFloat32(y * h.yScaleFactor + h.yOffset),
                         z |-> ToFloat32(z * h.zScaleFactor + h.zOffset),
                         r |-> color.r, g |-> color.g, b |-> color.b]]

(***************************************************************************)
(* LAS: saveLAS and loadLAS.                                               *)
(***************************************************************************)
\* The scale factor createLASHeader chooses (0.01), in ticks.
CentiScale == 10

\* LASHeader header{}: every field zero
ZeroHeader ==
    [signature |-> "", versionMajor |-> 0, versionMinor |-> 0,
     headerSize |-> 0, offsetToPointData |-> 0,
     pointDataRecordFormat |-> 0, pointDataRecordLength |-> 0,
     legacyNumberOfPointRecords |-> 0,
     legacyNumberOfPointsByReturn |-> Zeros(5),
     xScaleFactor |-> 0, yScaleFactor |-> 0, zScaleFactor |-> 0,
     xOffset |-> 0, yOffset |-> 0, zOffset |-> 0,
     startOfWaveformDataPacketRecord |-> 0,
     startOfFirstExtendedVariableLengthRecord |-> 0,
     numberOfExtendedVariableLengthRecords |-> 0,
     numberOfPointRecords |-> 0,
     numberOfPointsByReturn |-> Zeros(15)]

createLASHeader(points, format) ==
    LET scale == IF points # <<>> THEN CentiScale ELSE 0
    IN  [ZeroHeader EXCEPT
            !.signature = "LASF",
            !.versionMajor = 1,
            !.versionMinor = 3,
            !.headerSize = 235,
            !.offsetToPointData = 235,
            !.pointDataRecordFormat = format,
            !.pointDataRecordLength = getPointRecordLength(format),
            !.legacyNumberOfPointRecords = Len(points),
            !.xScaleFactor = scale, !.yScaleFactor = scale, !.zScaleFactor = scale]

\* the four characters of a file signature
SignatureBytes(sig) ==
    CASE sig = "LASF" -> <<76, 65, 83, 70>>
      [] sig = "LASX" -> <<76, 65, 83, 88>>
      [] OTHER        -> <<0, 0, 0, 0>>

SignatureText(bytes) ==
    CASE bytes = <<76, 65, 83, 70>> -> "LASF"
      [] bytes = <<76, 65, 83, 88>> -> "LASX"
      [] OTHER                      -> ""

RECURSIVE WriteCounts(_, _)
WriteCounts(counts, n) ==
    IF counts = <<>> THEN <<>>
    ELSE (IF n = 4 THEN LE(Head(counts), 4) ELSE LE8(Head(counts)))
         \o WriteCounts(Tail(counts), n)

\* writeHeader: the bytes written for a header.  The fields the model does
\* not carry (source id, encoding, GUID, identifiers, dates, VLR count,
\* bounding box) are zero.  Bytes 0..226, then the waveform pointer of 1.3+.
writeHeader(h) ==
    SignatureBytes(h.signature) \o Zeros(2 + 2 + 16)
    \o <<h.versionMajor, h.versionMinor>>
    \o Zeros(32) \o Zeros(32)
    \o Zeros(2 + 2) \o LE(h.headerSize, 2) \o LE(h.offsetToPointData, 4) \o Zeros(4)
    \o <<h.pointDataRecordFormat>> \o LE(h.pointDataRecordLength, 2)
    \o LE(h.legacyNumberOfPointRecords, 4)
    \o WriteCounts(h.legacyNumberOfPointsByReturn, 4)
    \o LE8(h.xScaleFactor) \o LE8(h.yScaleFactor) \o LE8(h.zScaleFactor)
    \o LE8(h.xOffset) \o LE8(h.yOffset) \o LE8(h.zOffset)
    \o Zeros(6 * 8)
    \o (IF h.versionMajor = 1 /\ h.versionMinor >= 3
        THEN LE8(h.startOfWaveformDataPacketRecord) ELSE <<>>)

\* the bytes parseHeader reads before it returns true
ParsedSize(major, minor) ==
    227 + (IF major = 1 /\ minor >= 3 THEN 8 ELSE 0)
        + (IF major = 1 /\ minor >= 4 THEN 8 + 4 + 8 + 15 * 8 ELSE 0)

\* parseHeader: [ok, header]; a read the file cannot fill, or a signature
\* other than LASF, makes it return false
parseHeader(data) ==
    IF Len(data) < 4 \/ SignatureText(SubSeq(data, 1, 4)) # "LASF" \/ Len(data) < 227
    THEN [ok |-> FALSE, header |-> ZeroHeader]
    ELSE LET major == data[25]
             minor == data[26]
             v13 == major = 1 /\ minor >= 3
             v14 == major = 1 /\ minor >= 4
         IN  IF Len(data) < ParsedSize(major, minor)
             THEN [ok |-> FALSE, header |-> ZeroHeader]
             ELSE [ok |-> TRUE, header |->
                   [signature |-> SignatureText(SubSeq(data, 1, 4)),
                    versionMajor |-> major, versionMinor |-> minor,
                    headerSize |-> UIntAt(data, 94, 2),
                    offsetToPointData |-> UIntAt(data, 96, 4),
                    pointDataRecordFormat |-> data[105],
                    pointDataRecordLength |-> UIntAt(data, 105, 2),
                    legacyNumberOfPointRecords |-> UIntAt(data, 107, 4),
                    legacyNumberOfPointsByReturn |->
                        [k \in 1..5 |-> UIntAt(data, 111 + 4 * (k - 1), 4)],
                    xScaleFactor |-> UIntAt(data, 131, 8),
                    yScaleFactor |-> UIntAt(data, 139, 8),
                    zScaleFactor |-> UIntAt(data, 147, 8),
                    xOffset |-> UIntAt(data, 155, 8),
                    yOffset |-> UIntAt(data, 163, 8),
                    zOffset |-> UIntAt(data, 171, 8),
                    startOfWaveformDataPacketRecord |->
                        IF v13 THEN UIntAt(data, 227, 8) ELSE 0,
                    startOfFirstExtendedVariableLengthRecord |->
                        IF v14 THEN UIntAt(data, 235, 8) ELSE 0,
                    numberOfExtendedVariableLengthRecords |->
                        IF v14 THEN UIntAt(data, 243, 4) ELSE 0,
                    numberOfPointRecords |-> IF v14 THEN UIntAt(data, 247, 8) ELSE 0,
                    numberOfPointsByReturn |->
                        IF v14 THEN [k \in 1..15 |-> UIntAt(data, 255 + 8 * (k - 1), 8)]
                        ELSE Zeros(15)]]

\* createLASHeader(pointCloud, format) for the collection to be saved
LasCreateHeader ==
    /\ LasFrame
    /\ lasPc = "create"
    /\ \E format \in 0..10 : lasHdr' = createLASHeader(lasSrc, format)
    /\ lasPc' = "save"
    /\ UNCHANGED <<lasParsed, lasSrc, lasOwn, lasData, lasPos, lasI, lasNum, lasWork,
                   lasOk, lasCloud>>

\* saveLAS: the header, then one record per point
LasSave ==
    /\ LasFrame
    /\ lasPc = "save"
    /\ lasData' = writeHeader(lasHdr) \o writePointData(lasHdr, lasSrc)
    /\ lasPc' = "open"
    /\ UNCHANGED <<lasHdr, lasParsed, lasSrc, lasOwn, lasPos, lasI, lasNum, lasWork,
                   lasOk, lasCloud>>

\* loadLAS up to the decode loop: parseHeader, isValid, then loadPointData's
\* seek to offsetToPointData (a seek past the end of the file succeeds; the
\* reads after it fail) and its set-up
LasOpen ==
    /\ LasFrame
    /\ lasPc = "open"
    /\ LET parsed == parseHeader(lasData)
           header == parsed.header
       IN  \/ /\ (~parsed.ok \/ ~isValidLAS(header))
              /\ lasParsed' = header
              /\ lasPc' = "done"
              /\ lasOk' = FALSE
              /\ lasCloud' = EmptyCloud
              /\ UNCHANGED <<lasPos, lasI, lasNum, lasWork>>
           \/ /\ ~(~parsed.ok \/ ~isValidLAS(header))
              /\ lasParsed' = header
              /\ lasPos' = header.offsetToPointData
              /\ lasNum' = getTotalPointCount(header)
              /\ lasI' = 0
              /\ lasWork' = [points |-> <<>>, width |-> getTotalPointCount(header),
                             height |-> 1, is_dense |-> TRUE]
              /\ lasPc' = "points"
              /\ UNCHANGED <<lasOk, lasCloud>>
    /\ UNCHANGED <<lasHdr, lasSrc, lasOwn, lasData>>

\* one iteration of loadPointData's loop
LasReadPoint ==
    /\ LasFrame
    /\ lasPc = "points"
    /\ lasI < lasNum
    /\ LET rec == readPointRecord(lasData, lasPos, lasParsed)
       IN  \/ /\ ~rec.ok
              /\ lasPc' = "done"
              /\ lasOk' = FALSE
              /\ lasCloud' = EmptyCloud
              /\ UNCHANGED <<lasPos, lasI, lasWork>>
           \/ /\ rec.ok
              /\ lasWork' = push_back(lasWork, rec.point)
              /\ lasPos' = rec.pos
              /\ lasI' = lasI + 1
              /\ UNCHANGED <<lasPc, lasOk, lasCloud>>
    /\ UNCHANGED <<lasHdr, lasParsed, lasSrc, lasOwn, lasData, lasNum>>

\* the loop ends: loadPointData returns true, loadLAS returns the collection
LasDone ==
    /\ LasFrame
    /\ lasPc = "points"
    /\ ~(lasI < lasNum)
    /\ lasPc' = "done"
    /\ lasOk' = TRUE
    /\ lasCloud' = lasWork
    /\ UNCHANGED <<lasHdr, lasParsed, lasSrc, lasOwn, lasData, lasPos, lasI, lasNum,
                   lasWork>>

(***************************************************************************)
(* LAS: the files and collections tried.                                   *)
(***************************************************************************)
\* The presence table of the format (formats 0..10): the layout of the
\* records another writer puts in a file.
TableTime(f)  == f \in {1, 3, 4, 5, 6, 7, 8, 9, 10}
TableColor(f) == f \in {2, 3, 5, 7, 8, 10}
TableNIR(f)   == f \in {8, 10}
TableWave(f)  == f \in {4, 5, 9, 10}
TableLength(f) ==
    <<20, 28, 26, 34, 57, 63, 30, 36, 38, 59, 67>>[f + 1]

\* Record number k of a file of another writer, format f: raw coordinates
\* 100k, 200k, 300k and colour (16k, 32k, 48k) in the high bytes.
ForeignRecord(f, k) ==
    IF f \notin 0..10 THEN LE(100 * k, 4) \o LE(200 * k, 4) \o LE(300 * k, 4) \o Zeros(8)
    ELSE LE(100 * k, 4) \o LE(200 * k, 4) \o LE(300 * k, 4)
         \o <<0, 0, 17, 1, 0, 0, 0, 0>>
         \o (IF TableTime(f) THEN Zeros(8) ELSE <<>>)
         \o (IF TableColor(f) THEN <<0, 16 * k, 0, 32 * k, 0, 48 * k>> ELSE <<>>)
         \o (IF TableNIR(f) THEN <<0, 64 * k>> ELSE <<>>)
         \o (IF TableWave(f) THEN Zeros(29) ELSE <<>>)

RECURSIVE ForeignData(_, _)
ForeignData(f, k) ==
    IF k = 0 THEN <<>> ELSE ForeignData(f, k - 1) \o ForeignRecord(f, k)

\* the size of the header block of a version: 227 bytes, 235 from 1.3 on,
\* 375 from 1.4 on
StdHeaderSize(minor) ==
    227 + (IF minor >= 3 THEN 8 ELSE 0) + (IF minor >= 4 THEN 140 ELSE 0)

\* a header as a writer fills it in: the point data right after the header
\* block, the fields of later versions set when the version has them
LasHeader(sig, major, minor, f, recLen, legacy, extended, scale, offset) ==
    [signature |-> sig, versionMajor |-> major, versionMinor |-> minor,
     headerSize |-> StdHeaderSize(minor),
     offsetToPointData |-> StdHeaderSize(minor),
     pointDataRecordFormat |-> f,
     pointDataRecordLength |-> recLen,
     legacyNumberOfPointRecords |-> legacy,
     legacyNumberOfPointsByReturn |-> <<legacy>> \o Zeros(4),
     xScaleFactor |-> scale, yScaleFactor |-> scale, zScaleFactor |-> scale,
     xOffset |-> offset, yOffset |-> offset, zOffset |-> offset,
     startOfWaveformDataPacketRecord |-> IF minor >= 3 THEN 9 ELSE 0,
     startOfFirstExtendedVariableLengthRecord |-> IF minor >= 4 THEN 11 ELSE 0,
     numberOfExtendedVariableLengthRecords |-> IF minor >= 4 THEN 1 ELSE 0,
     numberOfPointRecords |-> extended,
     numberOfPointsByReturn |-> <<extended>> \o Zeros(14)]

\* the header block of another writer's file: the layout of the format, with
\* the 1.3 and 1.4 fields when the minor version has them
ForeignHeader(h) ==
    Prefix(writeHeader(h), 227)
    \o (IF h.versionMinor >= 3 THEN LE8(h.startOfWaveformDataPacketRecord) ELSE <<>>)
    \o (IF h.versionMinor >= 4
        THEN LE8(h.startOfFirstExtendedVariableLengthRecord)
             \o LE(h.numberOfExtendedVariableLengthRecords, 4)
             \o LE8(h.numberOfPointRecords)
             \o WriteCounts(h.numberOfPointsByReturn, 8)
        ELSE <<>>)

Versions == {<<1, 1>>, <<1, 2>>, <<1, 3>>, <<1, 4>>, <<2, 4>>}

Formats == 0..11

\* float32 coordinates, in ticks; the last has a spacing of 4 ticks
CoordVals == {0, 100, -155, 33554436}

ScaleVals == {1, 3, 10}

OffsetVals == {0, 7, 33554431}

LasPoint(x, y, z) == [x |-> x, y |-> y, z |-> z, r |-> 255, g |-> 128, b |-> 64]

LasClouds ==
    {<<>>, <<LasPoint(100, 0, -155)>>,
     <<LasPoint(100, 0, -155), [x |-> 0, y |-> 100, z |-> 100, r |-> 0, g |-> 7, b |-> 200]>>}

\* a file of another writer: any header, k whole records, up to MaxCut
\* bytes missing at the end
LasInitForeign ==
    /\ \E sig \in {"LASF", "LASX"}, v \in Versions, f \in Formats,
          legacy \in 0..MaxPoints, extended \in 0..MaxPoints :
          lasHdr = LasHeader(sig, v[1], v[2], f, Len(ForeignRecord(f, 1)),
                             legacy, extended, 1, 0)
    /\ lasSrc = <<>>
    /\ lasOwn = FALSE
    /\ \E k \in 0..MaxPoints, cut \in 0..MaxCut :
          LET whole == ForeignData(lasHdr.pointDataRecordFormat, k)
          IN  lasData = ForeignHeader(lasHdr)
                        \o Prefix(whole, IF Len(whole) < cut THEN 0 ELSE Len(whole) - cut)
    /\ lasPc = "open"

\* a collection saved by saveLAS under a header the caller filled in, the
\* point data declared right after the header block or after room for one
\* variable-length record (54 bytes)
LasInitOwn ==
    /\ lasSrc \in LasClouds
    /\ \E v \in {<<1, 2>>, <<1, 3>>, <<1, 4>>}, f \in Formats, s \in {1, 10},
          room \in {0, 54} :
          LET h == LasHeader("LASF", v[1], v[2], f, getPointRecordLength(f),
                             Len(lasSrc), Len(lasSrc), s, 0)
          IN  lasHdr = [h EXCEPT !.offsetToPointData = h.headerSize + room]
    /\ lasOwn = TRUE
    /\ lasData = <<>>
    /\ lasPc = "save"

\* a collection saved under the header createLASHeader makes for it
LasInitCreate ==
    /\ lasSrc \in LasClouds
    /\ lasHdr = ZeroHeader
    /\ lasOwn = TRUE
    /\ lasData = <<>>
    /\ lasPc = "create"

\* one point saved under every scale factor and offset
LasInitQuant ==
    /\ \E x \in CoordVals, y \in CoordVals, z \in CoordVals :
          lasSrc = <<LasPoint(x, y, z)>>
    /\ \E s \in ScaleVals, o \in OffsetVals :
          lasHdr = LasHeader("LASF", 1, 3, 3, getPointRecordLength(3), 1, 1, s, o)
    /\ lasOwn = TRUE
    /\ lasData = <<>>
    /\ lasPc = "save"

LasInit ==
    /\ (LasInitForeign \/ LasInitOwn \/ LasInitCreate \/ LasInitQuant)
    /\ lasParsed = ZeroHeader
    /\ lasPos = 0 /\ lasI = 0 /\ lasNum = 0
    /\ lasWork = EmptyCloud
    /\ lasOk = FALSE
    /\ lasCloud = EmptyCloud

LasIdle ==
    /\ lasHdr = ZeroHeader /\ lasParsed = ZeroHeader
    /\ lasSrc = <<>> /\ lasOwn = FALSE /\ lasData = <<>>
    /\ lasPos = 0 /\ lasI = 0 /\ lasNum = 0
    /\ lasWork = EmptyCloud
    /\ lasPc = "idle" /\ lasOk = FALSE /\ lasCloud = EmptyCloud

LasNext == LasCreateHeader \/ LasSave \/ LasOpen \/ LasReadPoint \/ LasDone

(***************************************************************************)
(* PCD: values.  In the PCD codec a float is its four bytes (the codec     *)
(* copies them with memcpy and only asks whether the value is finite).     *)
(***************************************************************************)
F_1     == <<0, 0, 128, 63>>      \* 1.0f   0x3F800000
F_2     == <<0, 0, 0, 64>>        \* 2.0f   0x40000000
F_3     == <<0, 0, 64, 64>>       \* 3.0f   0x40400000
F_m1_5  == <<0, 0, 192, 191>>     \* -1.5f  0xBFC00000
F_NaN   == <<0, 0, 192, 127>>     \* quiet NaN 0x7FC00000
F_Inf   == <<0, 0, 128, 127>>     \* +inf   0x7F800000
F_mInf  == <<0, 0, 128, 255>>     \* -inf   0xFF800000
F_big   == <<255, 255, 127, 75>>  \* 16777215.0f 0x4B7FFFFF
F_big6  == <<240, 255, 127, 75>>  \* 16777200.0f 0x4B7FFFF0

\* std::isfinite: the exponent bits are not all ones
isfinite_Always(f) == TRUE

isfinite(f) == ~(f[4] % 128 = 127 /\ f[3] >= 128)

\* RGB(uint32_t packed)
RGBFromPacked(packed) ==
    [r |-> (packed \div 65536) % 256, g |-> (packed \div 256) % 256, b |-> packed % 256]

\* RGB::toPacked
toPacked(c) == c.r * 65536 + c.g * 256 + c.b

U32At(data, pos) ==
    data[pos + 1] + 256 * data[pos + 2] + 65536 * data[pos + 3] + 16777216 * data[pos + 4]

PcdPoint(x, y, z, r, g, b) == [x |-> x, y |-> y, z |-> z, r |-> r, g |-> g, b |-> b]

(***************************************************************************)
(* PCD: the header's pure functions.                                       *)
(***************************************************************************)
\* PCDHeader::getFieldIndex / findFieldIndex: the first field of that name,
\* 1-based; 0 stands for SIZE_MAX / nullopt.
getFieldIndex(h, name) ==
    IF \E j \in 1..Len(h.fields) : h.fields[j] = name
    THEN CHOOSE j \in 1..Len(h.fields) :
            /\ h.fields[j] = name
            /\ \A k \in 1..(j - 1) : h.fields[k] # name
    ELSE 0

isValidPCD(h) == h.fields # <<>> /\ h.width > 0 /\ h.points > 0

hasXYZ(h) ==
    /\ getFieldIndex(h, "x") # 0
    /\ getFieldIndex(h, "y") # 0
    /\ getFieldIndex(h, "z") # 0

parseHeaderOk_NoCounts(h) ==
    /\ ~(\/ Len(h.fields) # Len(h.sizes)
         \/ Len(h.fields) # Len(h.types))
    /\ isValidPCD(h)

\* parseHeader's verdict on the parsed lists
parseHeaderOk(h) ==
    /\ ~(\/ Len(h.fields) # Len(h.sizes)
         \/ Len(h.fields) # Len(h.types)
         \/ Len(h.fields) # Len(h.counts))
    /\ isValidPCD(h)

\* the fold over zip(sizes, counts): sum of size * count
RECURSIVE pointSizeUpTo(_, _)
pointSizeUpTo(h, j) ==
    IF j = 0 THEN 0 ELSE pointSizeUpTo(h, j - 1) + h.sizes[j] * h.counts[j]

pointSize(h) == pointSizeUpTo(h, Min(Len(h.sizes), Len(h.counts)))

(***************************************************************************)
(* PCD: text tokens.  A token is the text of one column; stof and stoul    *)
(* are given by their results on the tokens the model uses, as [ok, v];    *)
(* ~ok: the call raises std::invalid_argument or std::out_of_range.        *)
(***************************************************************************)
stof(tok) ==
    CASE tok = "1"           -> [ok |-> TRUE, v |-> F_1]
      [] tok = "2"           -> [ok |-> TRUE, v |-> F_2]
      [] tok = "3"           -> [ok |-> TRUE, v |-> F_3]
      [] tok = "-1.5"        -> [ok |-> TRUE, v |-> F_m1_5]
      [] tok = "nan"         -> [ok |-> TRUE, v |-> F_NaN]
      [] tok = "inf"         -> [ok |-> TRUE, v |-> F_Inf]
      [] tok = "-inf"        -> [ok |-> TRUE, v |-> F_mInf]
      [] tok = "1.67772e+07" -> [ok |-> TRUE, v |-> F_big6]
      [] tok = "0"           -> [ok |-> TRUE, v |-> <<0, 0, 0, 0>>]
      [] OTHER               -> [ok |-> FALSE, v |-> 0]   \* "abc", "", out of range

stoul(tok) ==
    CASE tok = "0"           -> [ok |-> TRUE, v |-> 0]
      [] tok = "1"           -> [ok |-> TRUE, v |-> 1]
      [] tok = "2"           -> [ok |-> TRUE, v |-> 2]
      [] tok = "3"           -> [ok |-> TRUE, v |-> 3]
      [] tok = "16744512"    -> [ok |-> TRUE, v |-> 16744512]
      [] tok = "65280"       -> [ok |-> TRUE, v |-> 65280]
      [] tok = "16777215"    -> [ok |-> TRUE, v |-> 16777215]
      [] tok = "1.67772e+07" -> [ok |-> TRUE, v |-> 1]
      [] OTHER               -> [ok |-> FALSE, v |-> 0]   \* "abc", "", out of range

\* operator<<(float) at the default precision of 6 significant digits
FloatText(f) ==
    CASE f = F_1    -> "1"
      [] f = F_2    -> "2"
      [] f = F_3    -> "3"
      [] f = F_m1_5 -> "-1.5"
      [] f = F_NaN  -> "nan"
      [] f = F_Inf  -> "inf"
      [] f = F_mInf -> "-inf"
      [] f = F_big  -> "1.67772e+07"
      [] f = F_big6 -> "1.67772e+07"
      [] OTHER      -> "0"

\* operator<<(uint32_t)
UIntText(n) ==
    CASE n = 16744512 -> "16744512"
      [] n = 65280    -> "65280"
      [] n = 16777215 -> "16777215"
      [] n = 1        -> "1"
      [] OTHER        -> "0"

(***************************************************************************)
(* PCD: the writers.                                                       *)
(***************************************************************************)
\* the bytes writeBinary / writeBinaryCompressed emit for field i of a point
BinaryField(h, point, i) ==
    LET xIdx == getFieldIndex(h, "x")
        yIdx == getFieldIndex(h, "y")
        zIdx == getFieldIndex(h, "z")
        rgbIdx == getFieldIndex(h, "rgb")
    IN  IF i = xIdx THEN point.x
        ELSE IF i = yIdx THEN point.y
        ELSE IF i = zIdx THEN point.z
        ELSE IF i = rgbIdx /\ rgbIdx # 0 THEN LE(toPacked(point), 4)
        ELSE Zeros(h.sizes[i])

RECURSIVE BinaryRecord(_, _, _)
BinaryRecord(h, point, i) ==
    IF i > Len(h.fields) THEN <<>>
    ELSE BinaryField(h, point, i) \o BinaryRecord(h, point, i + 1)

RECURSIVE BinaryRecords(_, _)
BinaryRecords(h, points) ==
    IF points = <<>> THEN <<>>
    ELSE BinaryRecord(h, Head(points), 1) \o BinaryRecords(h, Tail(points))

\* the text writeASCII emits for field i of a point
AsciiField(h, point, i) ==
    LET xIdx == getFieldIndex(h, "x")
        yIdx == getFieldIndex(h, "y")
        zIdx == getFieldIndex(h, "z")
        rgbIdx == getFieldIndex(h, "rgb")
    IN  IF i = xIdx THEN FloatText(point.x)
        ELSE IF i = yIdx THEN FloatText(point.y)
        ELSE IF i = zIdx THEN FloatText(point.z)
        ELSE IF i = rgbIdx /\ rgbIdx # 0 THEN UIntText(toPacked(point))
        ELSE "0"

AsciiLine(h, point) == [i \in 1..Len(h.fields) |-> AsciiField(h, point, i)]

AsciiLinesOf(h, points) == [k \in 1..Len(points) |-> AsciiLine(h, points[k])]

\* writeHeader: the header as given, with the DATA line of the writer
FileHeader(h, dataType) == [h EXCEPT !.dataType = dataType]

\* writeBinary, writeASCII, writeBinaryCompressed: [ok, bytes, lines]
writeBinary(h, points) ==
    IF ~hasXYZ(h) THEN [ok |-> FALSE, bytes |-> <<>>, lines |-> <<>>]
    ELSE [ok |-> TRUE, bytes |-> BinaryRecords(h, points), lines |-> <<>>]

writeASCII(h, points) ==
    IF ~hasXYZ(h) THEN [ok |-> FALSE, bytes |-> <<>>, lines |-> <<>>]
    ELSE [ok |-> TRUE, bytes |-> <<>>, lines |-> AsciiLinesOf(h, points)]

writeBinaryCompressed(h, points) ==
    IF ~hasXYZ(h) THEN [ok |-> FALSE, bytes |-> <<>>, lines |-> <<>>]
    ELSE LET uncompressedData == BinaryRecords(h, points)
             compressedData   == compress(uncompressedData)
         IN  IF compressedData = <<>>
             THEN [ok |-> FALSE, bytes |-> <<>>, lines |-> <<>>]
             ELSE [ok |-> TRUE,
                   bytes |-> LE(Len(compressedData), 4) \o LE(Len(uncompressedData), 4)
                             \o compressedData,
                   lines |-> <<>>]

\* savePCD: dispatch on header.dataType
PcdSave ==
    /\ PcdFrame
    /\ pcdPc = "save"
    /\ \/ /\ pcdHdr.dataType \in {"ascii", "binary", "binary_compressed"}
          /\ LET w == CASE pcdHdr.dataType = "ascii" -> writeASCII(pcdHdr, pcdSrc)
                        [] pcdHdr.dataType = "binary" -> writeBinary(pcdHdr, pcdSrc)
                        [] OTHER -> writeBinaryCompressed(pcdHdr, pcdSrc)
             IN  /\ pcdFile' = [hdr |-> FileHeader(pcdHdr, pcdHdr.dataType),
                                bytes |-> w.bytes, lines |-> w.lines]
                 /\ pcdSaved' = w.ok
          /\ pcdPc' = "open"
       \/ /\ pcdHdr.dataType \notin {"ascii", "binary", "binary_compressed"}
          /\ pcdSaved' = FALSE                      \* unsupported data type: no file
          /\ pcdPc' = "done"
          /\ UNCHANGED pcdFile
    /\ UNCHANGED <<pcdHdr, pcdSrc, pcdOwn, pcdBuf, pcdI, pcdWork, pcdOk, pcdThrown, pcdCloud>>

(***************************************************************************)
(* PCD: loadPCD.                                                           *)
(***************************************************************************)
\* an error return of loadPCD: {header, PointCloudXYZRGB{}}
PcdFail ==
    /\ pcdPc' = "done"
    /\ pcdOk' = FALSE
    /\ pcdCloud' = EmptyCloud

\* loadBinary: [ok, data]
loadBinary(h, bytes) ==
    LET totalSize == pointSize(h) * h.points
    IN  IF Len(bytes) < totalSize
        THEN [ok |-> FALSE, data |-> <<>>]          \* gcount() != totalSize
        ELSE [ok |-> TRUE, data |-> Prefix(bytes, totalSize)]

\* reorderFields: the data as it is (empty on empty data)
reorderFields(data) == data

loadBinaryCompressed_Plain(h, bytes) == loadBinary(h, bytes)

\* loadBinaryCompressed: [ok, data]
loadBinaryCompressed(h, bytes) ==
    IF Len(bytes) < 8 THEN [ok |-> FALSE, data |-> <<>>]     \* no compression header
    ELSE LET compressedSize   == U32At(bytes, 0)
             uncompressedSize == U32At(bytes, 4)
         IN  IF Len(bytes) - 8 < compressedSize THEN [ok |-> FALSE, data |-> <<>>]
             ELSE LET compressedData   == SubSeq(bytes, 9, 8 + compressedSize)
                      uncompressedData == decompress(compressedData, uncompressedSize)
                  IN  IF uncompressedData = <<>> THEN [ok |-> FALSE, data |-> <<>>]
                      ELSE IF reorderFields(uncompressedData) = <<>>
                      THEN [ok |-> FALSE, data |-> <<>>]
                      ELSE [ok |-> TRUE, data |-> reorderFields(uncompressedData)]

\* loadPCD up to the decode loop: parseHeader, the header checks, the
\* dispatch on DATA, and the reading of a binary payload
PcdOpen ==
    /\ PcdFrame
    /\ pcdPc = "open"
    /\ LET h == pcdFile.hdr
           started == [points |-> <<>>, width |-> h.width, height |-> h.height,
                       is_dense |-> TRUE]
           read == IF h.dataType = "binary" THEN loadBinary(h, pcdFile.bytes)
                   ELSE loadBinaryCompressed(h, pcdFile.bytes)
       IN  \/ /\ (~parseHeaderOk(h) \/ ~isValidPCD(h) \/ ~hasXYZ(h))
              /\ PcdFail
              /\ UNCHANGED <<pcdBuf, pcdI, pcdWork>>
           \/ /\ ~(~parseHeaderOk(h) \/ ~isValidPCD(h) \/ ~hasXYZ(h))
              /\ h.dataType \in {"binary", "binary_compressed"}
              /\ ~read.ok
              /\ PcdFail
              /\ UNCHANGED <<pcdBuf, pcdI, pcdWork>>
           \/ /\ ~(~parseHeaderOk(h) \/ ~isValidPCD(h) \/ ~hasXYZ(h))
              /\ h.dataType \in {"binary", "binary_compressed"}
              /\ read.ok
              /\ pcdBuf' = read.data
              /\ pcdWork' = started
              /\ pcdI' = 0
              /\ pcdPc' = "binary"
              /\ UNCHANGED <<pcdOk, pcdCloud>>
           \/ /\ ~(~parseHeaderOk(h) \/ ~isValidPCD(h) \/ ~hasXYZ(h))
              /\ h.dataType = "ascii"
              /\ pcdWork' = started
              /\ pcdI' = 0
              /\ pcdPc' = "ascii"
              /\ UNCHANGED <<pcdBuf, pcdOk, pcdCloud>>
           \/ /\ ~(~parseHeaderOk(h) \/ ~isValidPCD(h) \/ ~hasXYZ(h))
              /\ h.dataType \notin {"binary", "binary_compressed", "ascii"}
              /\ PcdFail                            \* unsupported data type
              /\ UNCHANGED <<pcdBuf, pcdI, pcdWork>>
    /\ UNCHANGED <<pcdHdr, pcdSrc, pcdOwn, pcdFile, pcdSaved, pcdThrown>>

\* the four bytes memcpy reads at data[at]
Bytes4At(data, at) == SubSeq(data, at + 1, at + 4)

decodeRecord_ByPosition(data, offset, h) ==
    LET rgbIdx == getFieldIndex(h, "rgb")
        color == IF rgbIdx # 0
                 THEN RGBFromPacked(U32At(data, offset + pointSizeUpTo(h, rgbIdx - 1)))
                 ELSE White
    IN  [x |-> Bytes4At(data, offset), y |-> Bytes4At(data, offset + 4),
         z |-> Bytes4At(data, offset + 8),
         r |-> color.r, g |-> color.g, b |-> color.b]

\* parseBinaryData: the point of the record at offset
decodeRecord(data, offset, h) ==
    LET xIdx == getFieldIndex(h, "x")
        yIdx == getFieldIndex(h, "y")
        zIdx == getFieldIndex(h, "z")
        rgbIdx == getFieldIndex(h, "rgb")
        color == IF rgbIdx # 0
                 THEN RGBFromPacked(U32At(data, offset + pointSizeUpTo(h, rgbIdx - 1)))
                 ELSE White
    IN  [x |-> Bytes4At(data, offset + pointSizeUpTo(h, xIdx - 1)),
         y |-> Bytes4At(data, offset + pointSizeUpTo(h, yIdx - 1)),
         z |-> Bytes4At(data, offset + pointSizeUpTo(h, zIdx - 1)),
         r |-> color.r, g |-> color.g, b |-> color.b]

\* the NaN/Inf test of both decoders
isValidPoint(p) == isfinite(p.x) /\ isfinite(p.y) /\ isfinite(p.z)

\* what both decoders do with a decoded point
KeepOrDrop(work, p) ==
    IF ~isValidPoint(p) THEN [work EXCEPT !.is_dense = FALSE]
    ELSE push_back(work, p)

\* the byte offsets in data that the memcpy calls for the record at offset
\* read: sizeof(float) bytes at the field offset of x, y and z and
\* sizeof(uint32_t) bytes at that of rgb, when the schema has one
RecordReads(h, offset) ==
    UNION { (offset + pointSizeUpTo(h, getFieldIndex(h, name) - 1))
                ..(offset + pointSizeUpTo(h, getFieldIndex(h, name) - 1) + 3) :
            name \in {n \in {"x", "y", "z", "rgb"} : getFieldIndex(h, n) # 0} }

\* what a memcpy that runs past data.size() may find there: any bytes; the
\* model tries zeros and the bytes of a non-finite float
BytesPastTheEnd == { <<0, 0, 0, 0>>, <<128, 127, 128, 127>> }

\* one iteration of parseBinaryData's loop
PcdParseRecord ==
    /\ PcdFrame
    /\ pcdPc = "binary"
    /\ pcdI < pcdFile.hdr.points
    /\ LET h == pcdFile.hdr
           offset == pcdI * pointSize(h)
       IN  \/ /\ offset + pointSize(h) > Len(pcdBuf)       \* data size mismatch
              /\ PcdFail
              /\ UNCHANGED <<pcdI, pcdWork>>
           \/ /\ ~(offset + pointSize(h) > Len(pcdBuf))
              /\ \E past \in BytesPastTheEnd :
                    pcdWork' = KeepOrDrop(pcdWork, decodeRecord(pcdBuf \o past, offset, h))
              /\ pcdI' = pcdI + 1
              /\ UNCHANGED <<pcdPc, pcdOk, pcdCloud>>
    /\ UNCHANGED <<pcdHdr, pcdSrc, pcdOwn, pcdFile, pcdSaved, pcdBuf, pcdThrown>>

\* loadASCII: the point of a line of at least fields.size() tokens, as
\* [ok, point]; ~ok when stof or stoul raises
decodeLine(values, h) ==
    LET xIdx == getFieldIndex(h, "x")
        yIdx == getFieldIndex(h, "y")
        zIdx == getFieldIndex(h, "z")
        rgbIdx == getFieldIndex(h, "rgb")
        x == stof(values[xIdx])
        y == stof(values[yIdx])
        z == stof(values[zIdx])
        packed == IF rgbIdx # 0 /\ rgbIdx - 1 < Len(values)
                  THEN stoul(values[rgbIdx]) ELSE [ok |-> TRUE, v |-> 16777215]
        color == RGBFromPacked(packed.v)
    IN  [ok |-> x.ok /\ y.ok /\ z.ok /\ packed.ok,
         point |-> [x |-> x.v, y |-> y.v, z |-> z.v,
                    r |-> color.r, g |-> color.g, b |-> color.b]]

\* one iteration of loadASCII's loop: i < header.points && getline
PcdParseLine ==
    /\ PcdFrame
    /\ pcdPc = "ascii"
    /\ pcdI < pcdFile.hdr.points
    /\ pcdI < Len(pcdFile.lines)
    /\ LET h == pcdFile.hdr
           values == pcdFile.lines[pcdI + 1]
       IN  \/ /\ Len(values) < Len(h.fields)               \* continue
              /\ pcdI' = pcdI + 1
              /\ UNCHANGED <<pcdWork, pcdPc, pcdOk, pcdThrown, pcdCloud>>
           \/ /\ ~(Len(values) < Len(h.fields))
              /\ ~decodeLine(values, h).ok                  \* the exception leaves loadPCD
              /\ pcdThrown' = TRUE
              /\ pcdPc' = "done"
              /\ UNCHANGED <<pcdI, pcdWork, pcdOk, pcdCloud>>
           \/ /\ ~(Len(values) < Len(h.fields))
              /\ decodeLine(values, h).ok
              /\ pcdWork' = KeepOrDrop(pcdWork, decodeLine(values, h).point)
              /\ pcdI' = pcdI + 1
              /\ UNCHANGED <<pcdPc, pcdOk, pcdThrown, pcdCloud>>
    /\ UNCHANGED <<pcdHdr, pcdSrc, pcdOwn, pcdFile, pcdSaved, pcdBuf>>

\* the decode loop ends: the decoder returns true, loadPCD the collection
PcdFinish ==
    /\ PcdFrame
    /\ \/ /\ pcdPc = "binary"
          /\ ~(pcdI < pcdFile.hdr.points)
       \/ /\ pcdPc = "ascii"
          /\ ~(pcdI < pcdFile.hdr.points /\ pcdI < Len(pcdFile.lines))
    /\ pcdPc' = "done"
    /\ pcdOk' = TRUE
    /\ pcdCloud' = pcdWork
    /\ UNCHANGED <<pcdHdr, pcdSrc, pcdOwn, pcdFile, pcdSaved, pcdBuf, pcdI, pcdWork, pcdThrown>>

(***************************************************************************)
(* PCD: the files and collections tried.                                   *)
(***************************************************************************)
Schema(fields, sizes, counts) ==
    [fields |-> fields, sizes |-> sizes, counts |-> counts,
     types |-> [i \in 1..Len(fields) |-> IF fields[i] = "rgb" THEN "U" ELSE "F"]]

Schemas ==
    { Schema(<<"x", "y", "z", "rgb">>, <<4, 4, 4, 4>>, <<1, 1, 1, 1>>),
      Schema(<<"rgb", "x", "y", "z">>, <<4, 4, 4, 4>>, <<1, 1, 1, 1>>),
      Schema(<<"x", "y", "z", "intensity", "rgb">>, <<4, 4, 4, 2, 4>>, <<1, 1, 1, 1, 1>>),
      Schema(<<"x", "y", "z", "rgb", "normal">>, <<4, 4, 4, 4, 4>>, <<1, 1, 1, 1, 3>>),
      Schema(<<"x", "y", "z">>, <<4, 4, 4>>, <<1, 1, 1>>) }

PcdHeader(schema, width, height, points, dataType) ==
    [fields |-> schema.fields, sizes |-> schema.sizes, types |-> schema.types,
     counts |-> schema.counts, width |-> width, height |-> height,
     points |-> points, dataType |-> dataType]

PcdPoints ==
    { PcdPoint(F_1, F_2, F_3, 255, 128, 64),
      PcdPoint(F_m1_5, F_2, F_1, 0, 255, 0),
      PcdPoint(F_NaN, F_2, F_3, 255, 255, 255),
      PcdPoint(F_1, F_mInf, F_3, 0, 255, 0) }

PcdClouds == SeqsUpTo(PcdPoints, MaxPoints)

\* a record of another writer: every field size * count bytes wide, the
\* fields the codec does not interpret filled with the byte 170
ForeignField(h, point, i) ==
    LET width == h.sizes[i] * h.counts[i]
    IN  CASE h.fields[i] = "x" -> point.x
          [] h.fields[i] = "y" -> point.y
          [] h.fields[i] = "z" -> point.z
          [] h.fields[i] = "rgb" -> LE(toPacked(point), 4)
          [] OTHER -> [k \in 1..width |-> 170]

RECURSIVE ForeignPcdRecord(_, _, _)
ForeignPcdRecord(h, point, i) ==
    IF i > Len(h.fields) THEN <<>>
    ELSE ForeignField(h, point, i) \o ForeignPcdRecord(h, point, i + 1)

RECURSIVE ForeignPcdRecords(_, _)
ForeignPcdRecords(h, points) ==
    IF points = <<>> THEN <<>>
    ELSE ForeignPcdRecord(h, Head(points), 1) \o ForeignPcdRecords(h, Tail(points))

\* the same record with the fields the codec does not interpret filled with
\* the byte fill
RECURSIVE ForeignPcdRecordFilled(_, _, _, _)
ForeignPcdRecordFilled(h, point, i, fill) ==
    IF i > Len(h.fields) THEN <<>>
    ELSE (IF h.fields[i] \in {"x", "y", "z", "rgb"} THEN ForeignField(h, point, i)
          ELSE [k \in 1..(h.sizes[i] * h.counts[i]) |-> fill])
         \o ForeignPcdRecordFilled(h, point, i + 1, fill)

RECURSIVE ForeignPcdRecordsFilled(_, _, _)
ForeignPcdRecordsFilled(h, points, fill) ==
    IF points = <<>> THEN <<>>
    ELSE ForeignPcdRecordFilled(h, Head(points), 1, fill)
         \o ForeignPcdRecordsFilled(h, Tail(points), fill)

\* the bytes other writers leave in fields the codec does not interpret
FillBytes == {170, 7}

CutEnd(bytes, cut) == Prefix(bytes, IF Len(bytes) < cut THEN 0 ELSE Len(bytes) - cut)

\* the lines of a foreign ascii payload (four columns, the last one rgb)
AsciiLines ==
    { <<"1", "2", "3", "16744512">>,
      <<"-1.5", "2", "1", "65280">>,
      <<"nan", "2", "3", "16777215">>,
      <<"1", "-inf", "3", "65280">>,
      <<"1", "2", "3">>,
      <<"nan", "2">>,
      <<"1", "abc", "3", "65280">>,
      <<"1", "2", "3", "nan">> }

\* a collection saved by savePCD under a header with POINTS = |P|
PcdInitOwn ==
    /\ pcdSrc \in PcdClouds
    /\ \E schema \in Schemas,
          dataType \in {"ascii", "binary", "binary_compressed", "binary_lzf"} :
          pcdHdr = PcdHeader(schema, Len(pcdSrc), 1, Len(pcdSrc), dataType)
    /\ pcdOwn = TRUE
    /\ pcdFile = [hdr |-> pcdHdr, bytes |-> <<>>, lines |-> <<>>]
    /\ pcdPc = "save"

\* a binary or binary_compressed file of another writer: the records of
\* pcdSrc, up to MaxCut bytes missing at the end, any declared POINTS
PcdInitForeignBinary ==
    /\ pcdSrc \in PcdClouds
    /\ \E schema \in Schemas, declared \in 0..MaxDeclared, cut \in 0..MaxCut,
          dataType \in {"binary", "binary_compressed"}, fill \in FillBytes :
          LET h == PcdHeader(schema, IF declared = 0 THEN 1 ELSE declared, 1,
                             declared, dataType)
              payload == CutEnd(ForeignPcdRecordsFilled(h, pcdSrc, fill), cut)
          IN  /\ pcdHdr = h
              /\ pcdFile = [hdr |-> h,
                            bytes |-> IF dataType = "binary" THEN payload
                                      ELSE LE(Len(compress(payload)), 4)
                                           \o LE(Len(payload), 4) \o compress(payload),
                            lines |-> <<>>]
    /\ pcdOwn = FALSE
    /\ pcdPc = "open"

\* an ascii file of another writer: any lines, any declared POINTS
PcdInitForeignAscii ==
    /\ pcdSrc = <<>>
    /\ \E schema \in { Schema(<<"x", "y", "z", "rgb">>, <<4, 4, 4, 4>>, <<1, 1, 1, 1>>),
                       Schema(<<"x", "y", "z">>, <<4, 4, 4>>, <<1, 1, 1>>) },
          declared \in 0..MaxDeclared, lines \in SeqsUpTo(AsciiLines, MaxLines) :
          /\ pcdHdr = PcdHeader(schema, IF declared = 0 THEN 1 ELSE declared, 1,
                                declared, "ascii")
          /\ pcdFile = [hdr |-> pcdHdr, bytes |-> <<>>, lines |-> lines]
    /\ pcdOwn = FALSE
    /\ pcdPc = "open"

\* the header lists of files whose header is malformed in one way, and one
\* well-formed one
HeaderLists ==
    { Schema(<<"x", "y", "z", "rgb">>, <<4, 4, 4, 4>>, <<1, 1, 1, 1>>),
      [Schema(<<"x", "y", "z", "rgb">>, <<4, 4, 4, 4>>, <<1, 1, 1, 1>>)
          EXCEPT !.sizes = <<4, 4, 4>>],
      [Schema(<<"x", "y", "z", "rgb">>, <<4, 4, 4, 4>>, <<1, 1, 1, 1>>)
          EXCEPT !.types = <<"F", "F", "F">>],
      [Schema(<<"x", "y", "z", "rgb">>, <<4, 4, 4, 4>>, <<1, 1, 1, 1>>)
          EXCEPT !.counts = <<1, 1, 1, 1, 1>>],
      Schema(<<"y", "z", "rgb">>, <<4, 4, 4>>, <<1, 1, 1>>),
      Schema(<<"x", "z", "rgb">>, <<4, 4, 4>>, <<1, 1, 1>>),
      Schema(<<"x", "y", "rgb">>, <<4, 4, 4>>, <<1, 1, 1>>),
      Schema(<<>>, <<>>, <<>>) }

\* a file of another writer with any of these header lists, WIDTH and POINTS
\* 0 or 1, and a payload of one whole four-column record
PcdInitForeignHeader ==
    /\ pcdSrc \in {<<p>> : p \in PcdPoints}
    /\ \E lists \in HeaderLists, width \in 0..1, points \in 0..1,
          dataType \in {"ascii", "binary", "binary_lzf"} :
          LET whole == PcdHeader(Schema(<<"x", "y", "z", "rgb">>, <<4, 4, 4, 4>>,
                                        <<1, 1, 1, 1>>), 1, 1, 1, dataType)
          IN  /\ pcdHdr = PcdHeader(lists, width, 1, points, dataType)
              /\ pcdFile = [hdr |-> pcdHdr,
                            bytes |-> IF dataType # "ascii"
                                      THEN ForeignPcdRecords(whole, pcdSrc) ELSE <<>>,
                            lines |-> IF dataType = "ascii"
                                      THEN AsciiLinesOf(whole, pcdSrc) ELSE <<>>]
    /\ pcdOwn = FALSE
    /\ pcdPc = "open"

\* schemas whose x, y, z or rgb is declared narrower than the four bytes
\* the decoder copies, and the usual one
WidthSchemas ==
    { Schema(<<"x", "y", "z", "rgb">>, <<4, 4, 4, 4>>, <<1, 1, 1, 1>>),
      Schema(<<"x", "y", "z">>, <<4, 4, 2>>, <<1, 1, 1>>),
      Schema(<<"x", "y", "z", "rgb">>, <<4, 4, 4, 2>>, <<1, 1, 1, 1>>),
      Schema(<<"x", "y", "z", "rgb">>, <<2, 4, 4, 4>>, <<1, 1, 1, 1>>),
      Schema(<<"rgb", "x", "y", "z">>, <<4, 4, 4, 4>>, <<1, 1, 1, 0>>) }

\* a record of another writer under such a schema: each field size * count
\* bytes wide, holding the first bytes of its value
RECURSIVE ForeignRecordOfWidths(_, _, _)
ForeignRecordOfWidths(h, point, i) ==
    IF i > Len(h.fields) THEN <<>>
    ELSE Prefix(ForeignField(h, point, i), Min(4, h.sizes[i] * h.counts[i]))
         \o ForeignRecordOfWidths(h, point, i + 1)

RECURSIVE ForeignRecordsOfWidths(_, _)
ForeignRecordsOfWidths(h, points) ==
    IF points = <<>> THEN <<>>
    ELSE ForeignRecordOfWidths(h, Head(points), 1)
         \o ForeignRecordsOfWidths(h, Tail(points))

\* a binary file of another writer under one of these schemas, every
\* declared record whole
PcdInitAnyWidth ==
    /\ pcdSrc \in PcdClouds
    /\ \E schema \in WidthSchemas, declared \in 1..MaxDeclared :
          LET h == PcdHeader(schema, declared, 1, declared, "binary")
          IN  /\ declared <= Len(pcdSrc)
              /\ pcdHdr = h
              /\ pcdFile = [hdr |-> h, bytes |-> ForeignRecordsOfWidths(h, pcdSrc),
                            lines |-> <<>>]
    /\ pcdOwn = FALSE
    /\ pcdPc = "open"

PcdInitRest ==
    /\ pcdSaved = FALSE
    /\ pcdBuf = <<>>
    /\ pcdI = 0
    /\ pcdWork = EmptyCloud
    /\ pcdOk = FALSE
    /\ pcdThrown = FALSE
    /\ pcdCloud = EmptyCloud

PcdInit ==
    /\ (PcdInitOwn \/ PcdInitForeignBinary \/ PcdInitForeignAscii
            \/ PcdInitForeignHeader)
    /\ pcdSaved = FALSE
    /\ pcdBuf = <<>>
    /\ pcdI = 0
    /\ pcdWork = EmptyCloud
    /\ pcdOk = FALSE
    /\ pcdThrown = FALSE
    /\ pcdCloud = EmptyCloud

PcdIdle ==
    /\ pcdHdr = PcdHeader(Schema(<<>>, <<>>, <<>>), 0, 0, 0, "")
    /\ pcdSrc = <<>> /\ pcdOwn = FALSE
    /\ pcdFile = [hdr |-> pcdHdr, bytes |-> <<>>, lines |-> <<>>]
    /\ pcdSaved = FALSE /\ pcdBuf = <<>> /\ pcdI = 0
    /\ pcdWork = EmptyCloud
    /\ pcdPc = "idle" /\ pcdOk = FALSE /\ pcdThrown = FALSE
    /\ pcdCloud = EmptyCloud

(***************************************************************************)
(* PCD: what the caller does with the collection loadPCD returned.         *)
(***************************************************************************)
\* createXYZRGBHeader
createXYZRGBHeader(pointCloud, dataType) ==
    PcdHeader(Schema(<<"x", "y", "z", "rgb">>, <<4, 4, 4, 4>>, <<1, 1, 1, 1>>),
              IF pointCloud.width > 0 THEN pointCloud.width
              ELSE Len(pointCloud.points),
              IF pointCloud.height > 0 THEN pointCloud.height ELSE 1,
              Len(pointCloud.points),
              dataType)

\* the caller clears the returned collection
PcdClear ==
    /\ PcdFrame
    /\ pcdPc \in {"done", "used"}
    /\ pcdOk
    /\ pcdCloud' = clear(pcdCloud)
    /\ pcdPc' = "used"
    /\ UNCHANGED <<pcdHdr, pcdSrc, pcdOwn, pcdFile, pcdSaved, pcdBuf, pcdI, pcdWork,
                   pcdOk, pcdThrown>>

\* the caller appends a point to the returned collection
PcdPushBack ==
    /\ PcdFrame
    /\ pcdPc \in {"done", "used"}
    /\ pcdOk
    /\ Len(pcdCloud.points) < MaxPoints
    /\ \E p \in PcdPoints : pcdCloud' = push_back(pcdCloud, p)
    /\ pcdPc' = "used"
    /\ UNCHANGED <<pcdHdr, pcdSrc, pcdOwn, pcdFile, pcdSaved, pcdBuf, pcdI, pcdWork,
                   pcdOk, pcdThrown>>

\* the caller makes the header to save the returned collection under
PcdCreateHeader ==
    /\ PcdFrame
    /\ pcdPc = "done"
    /\ pcdOk
    /\ \E dataType \in {"ascii", "binary", "binary_compressed"} :
          pcdHdr' = createXYZRGBHeader(pcdCloud, dataType)
    /\ pcdPc' = "header"
    /\ UNCHANGED <<pcdSrc, pcdOwn, pcdFile, pcdSaved, pcdBuf, pcdI, pcdWork,
                   pcdOk, pcdThrown, pcdCloud>>

PcdNext ==
    \/ PcdSave \/ PcdOpen \/ PcdParseRecord \/ PcdParseLine \/ PcdFinish
    \/ PcdClear \/ PcdPushBack \/ PcdCreateHeader

(***************************************************************************)
(* The LAS point's return-info byte (LASProcessor.hpp, LASPoint).          *)
(***************************************************************************)
\* a default-constructed LASPoint
DefaultLASPoint == [returnInfo |-> 0, scanDirection |-> FALSE, edgeOfFlightLine |-> FALSE]

\* returnInfo & 0x0F
getReturnNumber(point) == point.returnInfo % 16

getNumberOfReturns_NoShift(point) == point.returnInfo % 16

\* (returnInfo >> 4) & 0x0F
getNumberOfReturns(point) == (point.returnInfo \div 16) % 16

getScanDirection(point) == point.scanDirection

getEdgeOfFlightLine(point) == point.edgeOfFlightLine

\* (returnNum & 0x0F) | ((numReturns & 0x0F) << 4): the two operands share no
\* bit, so the or is their sum; the result is a uint8_t
setReturnInfo(point, returnNum, numReturns, scanDir, edgeOfFlight) ==
    [point EXCEPT !.returnInfo = ((returnNum % 16) + ((numReturns % 16) * 16)) % 256,
                  !.scanDirection = scanDir,
                  !.edgeOfFlightLine = edgeOfFlight]

PtSetReturnInfo ==
    /\ PtFrame
    /\ \E returnNum \in 0..MaxReturnArg, numReturns \in 0..MaxReturnArg,
          scanDir \in BOOLEAN, edgeOfFlight \in BOOLEAN :
          /\ ptPoint' = setReturnInfo(ptPoint, returnNum, numReturns, scanDir, edgeOfFlight)
          /\ ptArgs' = [called |-> TRUE, returnNum |-> returnNum,
                        numReturns |-> numReturns, scanDir |-> scanDir,
                        edgeOfFlight |-> edgeOfFlight]

PtInit ==
    /\ ptPoint = DefaultLASPoint
    /\ ptArgs = [called |-> FALSE, returnNum |-> 0, numReturns |-> 0,
                 scanDir |-> FALSE, edgeOfFlight |-> FALSE]

PtIdle == PtInit

PtNext == PtSetReturnInfo

(***************************************************************************)
(* Specifications: one per component, the other components idle.           *)
(***************************************************************************)
InitLZF == LzfInit /\ LasIdle /\ PcdIdle /\ PtIdle

SpecLZF == InitLZF /\ [][LzfNext]_vars

InitLAS == LasInit /\ LzfIdle /\ PcdIdle /\ PtIdle

SpecLAS == InitLAS /\ [][LasNext]_vars

InitPCD == PcdInit /\ LzfIdle /\ LasIdle /\ PtIdle

SpecPCD == InitPCD /\ [][PcdNext]_vars

\* both loaders
InitLoad == LzfIdle /\ PtIdle /\ ((LasInit /\ PcdIdle) \/ (PcdInit /\ LasIdle))

\* the binary decoder on files whose schema declares any widths
InitWidths == PcdInitAnyWidth /\ PcdInitRest /\ LzfIdle /\ LasIdle /\ PtIdle

WidthsNext == PcdOpen \/ PcdParseRecord \/ PcdFinish

SpecWidths == InitWidths /\ [][WidthsNext]_vars

InitPoint == PtInit /\ LzfIdle /\ LasIdle /\ PcdIdle

SpecPoint == InitPoint /\ [][PtNext]_vars

SpecLoad == InitLoad /\ [][LasNext \/ PcdNext]_vars

(***************************************************************************)
(* Claims on the LZF codec.                                                *)
(***************************************************************************)
\* C1: for every byte sequence b, decompress(compress(b), len(b)) returns
\* exactly b (the empty sequence, one byte and lengths that are no multiple
\* of 31 included).
C1_RoundTrip ==
    (lzMode = "roundtrip" /\ lzPc = "done" /\ lzCap = Len(lzSrc))
        => lzVec = lzSrc

\* A 33-byte sequence (two literal runs, 31 + 2) has come back whole.
C1_Witness ==
    /\ lzMode = "roundtrip" /\ lzPc = "done"
    /\ Len(lzSrc) = 33 /\ lzCap = 33
    /\ Len(lzIn) = 35
    /\ lzVec = lzSrc

\* The stream grammar of the format, walked from input position ip and
\* output position op without regard to how a decoder schedules its checks:
\* TRUE when a control sequence is cut short by the end of the input, a
\* back-reference distance exceeds the bytes produced, or a literal run or
\* copy would pass the output capacity.
RECURSIVE StreamFault(_, _, _, _)
StreamFault(in, ip, op, cap) ==
    IF ip = Len(in) THEN FALSE
    ELSE LET ctrl == in[ip + 1]
         IN  IF ctrl < 32
             THEN LET L == ctrl + 1
                  IN  IF Len(in) - (ip + 1) < L THEN TRUE
                      ELSE IF op + L > cap THEN TRUE
                      ELSE StreamFault(in, ip + 1 + L, op + L, cap)
             ELSE LET base == ctrl \div 32
                      need == IF base = 7 THEN 2 ELSE 1
                  IN  IF Len(in) - (ip + 1) < need THEN TRUE
                      ELSE LET L == base + (IF base = 7 THEN in[ip + 2] ELSE 0) + 2
                               d == ((ctrl % 32) * 256) + in[ip + 1 + need] + 1
                           IN  IF d > op THEN TRUE
                               ELSE IF op + L > cap THEN TRUE
                               ELSE StreamFault(in, ip + 1 + need, op + L, cap)

\* C8: for every input and every output capacity, when the input ends in the
\* middle of a control sequence, a back-reference distance exceeds the bytes
\* already produced, or a literal run or copy would exceed the output
\* capacity, the byte-level decompress returns 0 and the vector decompress
\* returns an empty vector.
C8_FaultReturnsZero ==
    (lzPc = "done" /\ StreamFault(lzIn, 0, 0, lzCap))
        => (lzRet = 0 /\ lzVec = <<>>)

\* C9: the vector decompress returns a non-empty result only when the whole
\* compressed stream decodes to exactly expectedSize bytes; for a valid
\* stream that encodes n bytes, expectedSize > n and expectedSize < n both
\* give an empty vector.
C9_SizeMismatchEmpty ==
    lzPc = "done" =>
        /\ (lzVec # <<>> => (lzIp = Len(lzIn) /\ lzOp = lzCap))
        /\ (lzMode = "roundtrip" /\ lzCap # Len(lzSrc)) => lzVec = <<>>

(***************************************************************************)
(* Claims on the LAS processor.                                            *)
(***************************************************************************)
Within(a, b, s) == Abs(a - b) <= s

\* C3: for all points p and every scale s and offset o, a record written by
\* writePointRecord and read back by readPointRecord under the same s and o
\* has, on each axis, a coordinate that differs from p's by at most s.
C3_QuantizationBound ==
    (lasPc = "done" /\ lasOwn /\ lasOk /\ Len(lasSrc) = 1 /\ Len(lasCloud.points) = 1)
        => LET p == lasSrc[1]
               q == lasCloud.points[1]
           IN  /\ Within(q.x, p.x, lasHdr.xScaleFactor)
               /\ Within(q.y, p.y, lasHdr.yScaleFactor)
               /\ Within(q.z, p.z, lasHdr.zScaleFactor)

\* C4: for every point format 0..10, hasRGB() is true exactly for the
\* formats with colour in the presence table (2, 3, 5, 7, 8, 10),
\* hasGPSTime() exactly for those with time (1, 3, 4, ..., 10), and the
\* near-infrared value is read exactly for formats 8 and 10.
C4_PresenceTable ==
    (lasPc \in {"points", "done"} /\ lasHdr.pointDataRecordFormat \in 0..10)
        => LET f == lasHdr.pointDataRecordFormat
           IN  /\ hasRGB(lasHdr) <=> TableColor(f)
               /\ hasGPSTime(lasHdr) <=> TableTime(f)
               /\ readsNIR(lasHdr) <=> TableNIR(f)

\* C5: for every point format 0..10, getPointRecordLength(format) is the
\* record length of the presence table: 20, 28, 26, 34, 57, 63, 30, 36, 38,
\* 59, 67.
C5_RecordLength ==
    (lasOwn /\ lasPc # "create" /\ lasHdr.pointDataRecordFormat \in 0..10)
        => lasHdr.pointDataRecordLength
             = <<20, 28, 26, 34, 57, 63, 30, 36, 38, 59, 67>>[lasHdr.pointDataRecordFormat + 1]

\* createLASHeader has made a format-5 header of record length 63.
C5_Witness ==
    /\ lasPc = "save" /\ lasOwn
    /\ lasHdr.pointDataRecordFormat = 5
    /\ lasHdr.pointDataRecordLength = 63

\* C6: the effective point count, the number of records the decode loop of
\* loadPointData attempts to read, is the 64-bit numberOfPointRecords when
\* versionMinor >= 4 and the 32-bit legacyNumberOfPointRecords when
\* versionMinor < 4, also when the two stored counts differ.
C6_PointCountSelection ==
    (lasPc = "points" \/ (lasPc = "done" /\ lasOk))
        => /\ lasNum = IF lasParsed.versionMinor >= 4
                       THEN lasParsed.numberOfPointRecords
                       ELSE lasParsed.legacyNumberOfPointRecords
           /\ lasI <= lasNum
           /\ (lasPc = "done" => (lasI = lasNum /\ Len(lasCloud.points) = lasNum))

\* A 1.4 file whose counts differ (2 extended, 1 legacy) was decoded: 2 records.
C6_Witness ==
    /\ lasPc = "done" /\ lasOk
    /\ lasParsed.versionMinor = 4
    /\ lasParsed.numberOfPointRecords = 2
    /\ lasParsed.legacyNumberOfPointRecords = 1
    /\ lasI = 2

(***************************************************************************)
(* Claims on the PCD loader.                                               *)
(***************************************************************************)
NonFinite == {F_NaN, F_Inf, F_mInf}

AllFinite(points) ==
    \A i \in 1..Len(points) :
        points[i].x \notin NonFinite /\ points[i].y \notin NonFinite
        /\ points[i].z \notin NonFinite

HasField(h, name) == \E j \in 1..Len(h.fields) : h.fields[j] = name

\* C2: a collection of finite points saved by savePCD_Binary or
\* savePCD_BinaryCompressed under a schema with x, y, z and rgb and a header
\* with POINTS = |P| loads back as the same points in the same order, with
\* the same coordinate bytes and the same r, g, b.
C2_BinaryRoundTrip ==
    ( /\ pcdPc = "done" /\ pcdOwn /\ pcdSaved
      /\ pcdHdr.dataType \in {"binary", "binary_compressed"}
      /\ \A name \in {"x", "y", "z", "rgb"} : HasField(pcdHdr, name)
      /\ pcdHdr.points = Len(pcdSrc)
      /\ AllFinite(pcdSrc) )
        => pcdCloud.points = pcdSrc

\* the text of a non-finite coordinate
NonFiniteText == {"nan", "inf", "-inf"}

\* the records of the payload the loader decoded all have finite x, y, z:
\* for a binary payload the declared records, for a text payload the
\* complete lines among the declared ones
PayloadAllFinite ==
    LET h == pcdFile.hdr
    IN  IF h.dataType = "ascii"
        THEN \A i \in 1..Min(h.points, Len(pcdFile.lines)) :
                Len(pcdFile.lines[i]) >= Len(h.fields)
                    => \A name \in {"x", "y", "z"} :
                          pcdFile.lines[i][getFieldIndex(h, name)] \notin NonFiniteText
        ELSE AllFinite(Prefix(pcdSrc, h.points))

\* C7: after a successful loadPCD, is_dense is false if a record of the
\* payload had a non-finite x, y or z, and true if every record was finite.
C7_DensityFlag ==
    (pcdPc = "done" /\ pcdOk) => (pcdCloud.is_dense <=> PayloadAllFinite)

\* A binary_compressed file of two records, the second with an infinite y,
\* loaded: one point, is_dense false.
C7_Witness ==
    /\ pcdPc = "done" /\ pcdOk
    /\ pcdFile.hdr.dataType = "binary_compressed"
    /\ pcdFile.hdr.points = 2
    /\ Len(pcdCloud.points) = 1
    /\ ~pcdCloud.is_dense

\* C26: parseBinaryData decodes a record by name whatever the order of the
\* fields and whatever other fields the schema has: the point it appends has
\* the x, y, z the writer put in the fields of those names and the color of
\* the rgb field, white when the schema has none; the bytes of the other
\* fields do not matter
C26_DecodeByName ==
    [][ ( /\ pcdPc = "binary" /\ pcdPc' = "binary" /\ pcdI' = pcdI + 1
          /\ ~pcdOwn /\ pcdI < Len(pcdSrc) )
        => LET src == pcdSrc[pcdI + 1]
               expected == IF HasField(pcdFile.hdr, "rgb") THEN src
                           ELSE [src EXCEPT !.r = 255, !.g = 255, !.b = 255]
           IN  IF src.x \in NonFinite \/ src.y \in NonFinite \/ src.z \in NonFinite
               THEN pcdWork'.points = pcdWork.points
               ELSE pcdWork'.points = Append(pcdWork.points, expected) ]_vars

\* a file of another writer with a 12-byte normal field after rgb, filled with
\* the byte 7, has been decoded: two different points, as the writer put them
C26_Witness ==
    /\ pcdPc = "done" /\ pcdOk /\ ~pcdOwn
    /\ pcdFile.hdr.dataType = "binary"
    /\ pcdFile.hdr.fields = <<"x", "y", "z", "rgb", "normal">>
    /\ pcdFile.hdr.points = 2 /\ Len(pcdFile.bytes) = 56
    /\ pcdFile.bytes[17] = 7
    /\ pcdCloud.points = pcdSrc
    /\ pcdSrc[1] # pcdSrc[2]

FinitePoint(p) == p.x \notin NonFinite /\ p.y \notin NonFinite /\ p.z \notin NonFinite

\* the finite ones among the first n records the writer stored, in record
\* order, with the color the schema carries
FiniteRecords(h, n) ==
    LET kept == SelectSeq(Prefix(pcdSrc, n), FinitePoint)
    IN  [i \in 1..Len(kept) |->
            IF HasField(h, "rgb") THEN kept[i]
            ELSE [kept[i] EXCEPT !.r = 255, !.g = 255, !.b = 255]]

\* the declared records of the payload that have a non-finite x, y or z
DroppedRecords ==
    LET h == pcdFile.hdr
    IN  IF h.dataType = "ascii"
        THEN Cardinality({i \in 1..Min(h.points, Len(pcdFile.lines)) :
                /\ Len(pcdFile.lines[i]) >= Len(h.fields)
                /\ \E name \in {"x", "y", "z"} :
                      pcdFile.lines[i][getFieldIndex(h, name)] \in NonFiniteText})
        ELSE Cardinality({i \in 1..Min(h.points, Len(pcdSrc)) : ~FinitePoint(pcdSrc[i])})

\* C27: while a payload is decoded the collection built so far is the finite
\* records among those processed so far, in record order; after a successful
\* load it holds POINTS minus the dropped records, and POINTS points when
\* is_dense is true
C27_FiniteSubsequence ==
    /\ (pcdPc = "binary" /\ pcdI <= Len(pcdSrc))
            => pcdWork.points = FiniteRecords(pcdFile.hdr, pcdI)
    /\ (pcdPc = "done" /\ pcdOk)
            => Len(pcdCloud.points) = pcdFile.hdr.points - DroppedRecords
    /\ (pcdPc = "done" /\ pcdOk /\ pcdCloud.is_dense)
            => Len(pcdCloud.points) = pcdFile.hdr.points

\* C28: decoding an ascii payload never raises: whatever the tokens of a
\* line, loadPCD decodes the line or reports failure through its return
\* value, and no exception leaves it
C28_AsciiNeverRaises ==
    pcdFile.hdr.dataType = "ascii" => ~pcdThrown

\* C30: for every header loadPCD accepts, whatever widths and counts it
\* declares, and every payload, parseBinaryData reads only bytes of the
\* record it decodes, [i * pointSize, (i + 1) * pointSize), and none at or
\* past the end of the payload buffer
C30_ReadsInsideRecord ==
    LET h == pcdFile.hdr
        offset == pcdI * pointSize(h)
    IN  ( /\ pcdPc = "binary" /\ pcdI < h.points
          /\ ~(offset + pointSize(h) > Len(pcdBuf)) )
            => \A k \in RecordReads(h, offset) :
                  /\ offset <= k /\ k < offset + pointSize(h)
                  /\ k < Len(pcdBuf)

(***************************************************************************)
(* Claims on both loaders.                                                 *)
(***************************************************************************)
\* the number of complete records a PCD payload holds is below POINTS
PcdFewerRecords ==
    LET h == pcdFile.hdr
    IN  CASE h.dataType = "ascii" ->
                Cardinality({i \in 1..Len(pcdFile.lines) :
                                Len(pcdFile.lines[i]) >= Len(h.fields)}) < h.points
          [] h.dataType = "binary" ->
                Len(pcdFile.bytes) < h.points * pointSize(h)
          [] h.dataType = "binary_compressed" ->
                Len(pcdFile.bytes) < 8
                \/ U32At(pcdFile.bytes, 4) < h.points * pointSize(h)
          [] OTHER -> FALSE

\* the number of complete records a LAS payload holds is below the count
\* the header declares
LasFewerRecords ==
    LET declared == IF lasParsed.versionMinor >= 4 THEN lasParsed.numberOfPointRecords
                    ELSE lasParsed.legacyNumberOfPointRecords
    IN  Len(lasData) - lasParsed.offsetToPointData
            < declared * lasParsed.pointDataRecordLength

\* C10: a load whose payload holds fewer complete records than the header
\* declares returns an empty collection, never a collection of fewer points
\* (loads an exception ends are left aside).
C10_ShortPayloadFails ==
    /\ (pcdPc = "done" /\ pcdFile.hdr.dataType \in {"ascii", "binary", "binary_compressed"}
            /\ ~pcdThrown /\ PcdFewerRecords)
          => pcdCloud.points = <<>>
    /\ (lasPc = "done" /\ LasFewerRecords)
          => lasCloud.points = <<>>

(***************************************************************************)
(* Claims on the PCD writers.                                              *)
(***************************************************************************)
\* the length of the uncompressed payload of the file savePCD wrote
SavedPayloadLen ==
    IF pcdFile.hdr.dataType = "binary" THEN Len(pcdFile.bytes)
    ELSE U32At(pcdFile.bytes, 4)

\* C11: the payload writeBinary and writeBinaryCompressed emit for N points
\* is N * recordByteSize(schema) bytes, recordByteSize being the sum over
\* the fields of byteWidth * count.
C11_RecordBytes ==
    ( /\ pcdOwn /\ pcdSaved /\ pcdPc # "save"
      /\ pcdFile.hdr.dataType \in {"binary", "binary_compressed"} )
        => SavedPayloadLen = Len(pcdSrc) * pointSize(pcdHdr)

(***************************************************************************)
(* Claims on a failed load.                                                *)
(***************************************************************************)
\* PCDHeader{}
EmptyPcdHeader == PcdHeader(Schema(<<>>, <<>>, <<>>), 0, 0, 0, "")

\* the header of the tuple loadPCD returns: PCDHeader{} when parseHeader
\* failed, the parsed header on every later return
loadPCD_header ==
    IF ~parseHeaderOk(pcdFile.hdr) THEN EmptyPcdHeader ELSE pcdFile.hdr

\* the header of the tuple loadLAS returns: LASHeader{} when parseHeader
\* failed, the parsed header on every later return
loadLAS_header ==
    IF ~parseHeader(lasData).ok THEN ZeroHeader ELSE lasParsed

\* loadPCD was called and has returned
PcdLoadReturned ==
    /\ pcdPc = "done" /\ ~pcdThrown
    /\ ~(pcdOwn /\ pcdHdr.dataType \notin {"ascii", "binary", "binary_compressed"})

\* C12: a failed loadLAS or loadPCD returns an empty collection together
\* with a header for which isValid() is false.
C12_FailedLoadInvalidHeader ==
    /\ (PcdLoadReturned /\ ~pcdOk)
          => (pcdCloud = EmptyCloud /\ ~isValidPCD(loadPCD_header))
    /\ (lasPc = "done" /\ ~lasOk)
          => (lasCloud = EmptyCloud /\ ~isValidLAS(loadLAS_header))

(***************************************************************************)
(* Claims on the PCD header checks.                                        *)
(***************************************************************************)
\* the header rule of the specification
WellFormedHeader(h) ==
    /\ Len(h.fields) = Len(h.sizes)
    /\ Len(h.fields) = Len(h.types)
    /\ Len(h.fields) = Len(h.counts)
    /\ h.width > 0
    /\ h.points > 0
    /\ \A name \in {"x", "y", "z"} : HasField(h, name)

\* C13: loadPCD returns an empty collection for a header with lists of
\* unequal length, WIDTH 0, POINTS 0 or a missing x, y or z, and takes a
\* header that has none of these faults to its decoder (an ascii payload, a
\* binary payload of the declared size).
C13_HeaderValidation ==
    [][ pcdPc = "open" =>
          /\ ~WellFormedHeader(pcdFile.hdr)
                => (pcdPc' = "done" /\ ~pcdOk' /\ pcdCloud' = EmptyCloud)
          /\ (WellFormedHeader(pcdFile.hdr) /\ pcdFile.hdr.dataType = "ascii")
                => pcdPc' = "ascii"
          /\ ( /\ WellFormedHeader(pcdFile.hdr) /\ pcdFile.hdr.dataType = "binary"
               /\ Len(pcdFile.bytes) >= pcdFile.hdr.points * pointSize(pcdFile.hdr) )
                => pcdPc' = "binary" ]_vars

\* A file whose COUNT list is longer than its FIELDS list, with WIDTH 1,
\* POINTS 1, all of x, y, z and a whole record, was rejected.
C13_Witness ==
    /\ pcdPc = "done" /\ ~pcdOk /\ ~pcdOwn
    /\ Len(pcdFile.hdr.counts) > Len(pcdFile.hdr.fields)
    /\ pcdFile.hdr.width = 1 /\ pcdFile.hdr.points = 1
    /\ pcdFile.hdr.dataType = "binary"
    /\ pcdCloud = EmptyCloud

Keywords == {"ascii", "binary", "binary_compressed"}

\* the payload of the file is in the encoding its DATA line names
PayloadMatchesKeyword(file, points) ==
    CASE file.hdr.dataType = "ascii" ->
            file.bytes = <<>> /\ Len(file.lines) = Len(points)
      [] file.hdr.dataType = "binary" ->
            file.lines = <<>> /\ Len(file.bytes) >= 12 * Len(points)
            /\ (points # <<>> => \E at \in 0..12 : Bytes4At(file.bytes, at) = points[1].x)
      [] file.hdr.dataType = "binary_compressed" ->
            file.lines = <<>> /\ Len(file.bytes) >= 8
            /\ U32At(file.bytes, 0) = Len(file.bytes) - 8
            /\ Len(decompress(SubSeq(file.bytes, 9, Len(file.bytes)),
                              U32At(file.bytes, 4))) = U32At(file.bytes, 4)

\* C15: for a DATA keyword other than ascii, binary and binary_compressed
\* savePCD returns false and loadPCD returns an empty collection; for each
\* of the three keywords both dispatch to that keyword's codec and the
\* saved file's DATA line names the encoding of its payload.
C15_KeywordDispatch ==
    [][ /\ (pcdPc = "save" /\ pcdHdr.dataType \notin Keywords) => ~pcdSaved'
        /\ (pcdPc = "save" /\ pcdHdr.dataType \in Keywords /\ pcdSaved')
              => /\ pcdFile'.hdr.dataType = pcdHdr.dataType
                 /\ PayloadMatchesKeyword(pcdFile', pcdSrc)
        /\ (pcdPc = "open" /\ pcdFile.hdr.dataType \notin Keywords)
              => (pcdPc' = "done" /\ pcdCloud' = EmptyCloud)
        /\ (pcdPc = "open" /\ pcdFile.hdr.dataType \in Keywords /\ pcdPc' # "done")
              => CASE pcdFile.hdr.dataType = "ascii" -> pcdPc' = "ascii"
                   [] pcdFile.hdr.dataType = "binary" ->
                        /\ pcdPc' = "binary"
                        /\ pcdBuf' = Prefix(pcdFile.bytes, Len(pcdBuf'))
                   [] pcdFile.hdr.dataType = "binary_compressed" ->
                        /\ pcdPc' = "binary"
                        /\ pcdBuf' = decompress(SubSeq(pcdFile.bytes, 9, Len(pcdFile.bytes)),
                                                U32At(pcdFile.bytes, 4)) ]_vars

\* A file with a well-formed header, a whole record and DATA binary_lzf was
\* refused.
C15_Witness ==
    /\ pcdPc = "done" /\ ~pcdOwn /\ pcdFile.hdr.dataType = "binary_lzf"
    /\ WellFormedHeader(pcdFile.hdr) /\ Len(pcdFile.bytes) = 16
    /\ ~pcdOk /\ pcdCloud = EmptyCloud

(***************************************************************************)
(* Claims on the LAS header and the layout of a saved file.                *)
(***************************************************************************)
\* the fields of a header that a file of its version stores
Stored(h) ==
    LET h13 == IF h.versionMinor >= 3 THEN h
               ELSE [h EXCEPT !.startOfWaveformDataPacketRecord = 0]
    IN  IF h.versionMinor >= 4 THEN h13
        ELSE [h13 EXCEPT !.startOfFirstExtendedVariableLengthRecord = 0,
                         !.numberOfExtendedVariableLengthRecords = 0,
                         !.numberOfPointRecords = 0,
                         !.numberOfPointsByReturn = Zeros(15)]

\* C16: for a valid header h of version 1.2, 1.3 or 1.4, parseHeader on the
\* bytes of writeHeader(h) succeeds and returns the field values of h, with
\* the waveform pointer from 1.3 on and the extended fields from 1.4 on.
C16_HeaderRoundTrip ==
    (lasOwn /\ lasPc \in {"open", "points", "done"} /\ isValidLAS(lasHdr))
        => /\ parseHeader(writeHeader(lasHdr)).ok
           /\ parseHeader(writeHeader(lasHdr)).header = Stored(lasHdr)

\* C17: in a file saveLAS produced, the first point record starts at byte
\* offset header.offsetToPointData.
C17_PointDataOffset ==
    (lasOwn /\ lasPc \in {"open", "points", "done"} /\ lasSrc # <<>>)
        => LET first == writePointRecord(lasHdr, lasSrc[1])
               at == lasHdr.offsetToPointData
           IN  /\ Len(lasData) >= at + Len(first)
               /\ SubSeq(lasData, at + 1, at + Len(first)) = first

\* C18: for a point format that carries color in the presence table, the
\* colors of a collection read back after saveLAS / loadLAS are the colors
\* that were saved.
C18_ColorRoundTrip ==
    ( /\ lasOwn /\ lasPc = "done" /\ lasOk
      /\ lasHdr.pointDataRecordFormat \in 0..10
      /\ TableColor(lasHdr.pointDataRecordFormat)
      /\ Len(lasCloud.points) = Len(lasSrc) )
        => \A i \in 1..Len(lasSrc) :
              /\ lasCloud.points[i].r = lasSrc[i].r
              /\ lasCloud.points[i].g = lasSrc[i].g
              /\ lasCloud.points[i].b = lasSrc[i].b

\* C19: once a collection's is_dense flag is false it stays false: neither a
\* later record decoded into the collection nor a later push_back or clear on
\* the returned collection sets it back to true
C19_DenseNeverReverts ==
    [][ /\ (pcdPc \in {"binary", "ascii"} /\ pcdPc' = pcdPc /\ ~pcdWork.is_dense)
            => ~pcdWork'.is_dense
        /\ (pcdPc \in {"done", "used"} /\ pcdPc' = "used" /\ ~pcdCloud.is_dense)
            => ~pcdCloud'.is_dense ]_vars

\* the file declares WIDTH * HEIGHT = POINTS and holds every record it declares
PcdWholeFile ==
    LET h == pcdFile.hdr
    IN  /\ h.width * h.height = h.points
        /\ ~PcdFewerRecords
        /\ h.dataType = "ascii"
              => /\ Len(pcdFile.lines) >= h.points
                 /\ \A i \in 1..h.points : Len(pcdFile.lines[i]) >= Len(h.fields)

\* C20: an unorganized collection (height = 1) returned by a successful
\* loadPCD or loadLAS holds width * height points, records dropped for a
\* non-finite coordinate or not, and the header createXYZRGBHeader makes for
\* it has width * height = points
C20_WidthTimesHeight ==
    /\ (pcdPc = "done" /\ pcdOk /\ PcdWholeFile /\ pcdCloud.height = 1)
            => pcdCloud.width * pcdCloud.height = Len(pcdCloud.points)
    /\ (pcdPc = "header" /\ PcdWholeFile /\ pcdCloud.height = 1)
            => pcdHdr.width * pcdHdr.height = pcdHdr.points
    /\ (lasPc = "done" /\ lasOk /\ lasCloud.height = 1)
            => lasCloud.width * lasCloud.height = Len(lasCloud.points)
\* C23: a control byte c >= 32 at output position p is a back reference of
\* distance d = ((c & 0x1F) << 8) + nextByte + 1 and length L = (c >> 5) + 2,
\* plus the extension byte when c >> 5 = 7; after the copy out[p+i] = out[p+i-d]
\* for every i in 0..L-1, overlapping or not, the bytes before p are as they
\* were, and the output position is p + L
C23_BackReference ==
    [][ ( /\ lzPc = "decode" /\ lzPc' = "decode"
          /\ LoopCond(lzIn, lzCap, lzIp, lzOp)
          /\ lzIn[lzIp + 1] >= 32 )
        => LET c == lzIn[lzIp + 1]
               extended == c \div 32 = 7
               L == (c \div 32) + 2 + (IF extended THEN lzIn[lzIp + 2] ELSE 0)
               nextByte == IF extended THEN lzIn[lzIp + 3] ELSE lzIn[lzIp + 2]
               d == ((c % 32) * 256) + nextByte + 1
               p == lzOp
           IN  /\ lzOp' = p + L
               /\ lzIp' = lzIp + (IF extended THEN 3 ELSE 2)
               /\ d <= p
               /\ \A i \in 0..(L - 1) : lzBuf'[p + i + 1] = lzBuf'[p + i + 1 - d]
               /\ \A j \in 1..p : lzBuf'[j] = lzBuf[j] ]_vars

\* the stream 1 0 1 32 1 has been decoded: two literals, then a back
\* reference of distance 2 and length 3 that re-reads a byte it wrote
C23_Witness ==
    /\ lzMode = "raw" /\ lzIn = <<1, 0, 1, 32, 1>>
    /\ lzIp = 5 /\ lzOp = 5
    /\ SubSeq(lzBuf, 1, 5) = <<0, 1, 0, 1, 0>>

\* C24: writePointRecord stores each coordinate as round((coordinate - offset)
\* / scale), the nearest integer, in the record's three 32-bit integers
C24_RoundedQuantization ==
    (lasOwn /\ lasPc \in {"open", "points", "done"} /\ lasSrc # <<>>)
        => LET at == Len(writeHeader(lasHdr))
               p == lasSrc[1]
           IN  /\ Int32At(lasData, at) = RoundDiv(p.x - lasHdr.xOffset, lasHdr.xScaleFactor)
               /\ Int32At(lasData, at + 4) = RoundDiv(p.y - lasHdr.yOffset, lasHdr.yScaleFactor)
               /\ Int32At(lasData, at + 8) = RoundDiv(p.z - lasHdr.zOffset, lasHdr.zScaleFactor)

\* C25: for every point format 0..10 writePointRecord emits, and
\* readPointRecord consumes, exactly getPointRecordLength(format) bytes per
\* record: a saved file holds that many bytes per point after its header, and
\* the reader is at offsetToPointData + i * recordLength before record i
C25_RecordLengthKept ==
    /\ ( /\ lasOwn /\ lasPc \in {"open", "points", "done"}
          /\ lasHdr.pointDataRecordFormat \in 0..10 )
            => Len(lasData) = Len(writeHeader(lasHdr))
                   + Len(lasSrc) * getPointRecordLength(lasHdr.pointDataRecordFormat)
    /\ ( /\ lasPc = "points"
          /\ lasParsed.pointDataRecordFormat \in 0..10
          /\ lasParsed.pointDataRecordLength
                = getPointRecordLength(lasParsed.pointDataRecordFormat) )
            => lasPos = lasParsed.offsetToPointData
                          + lasI * lasParsed.pointDataRecordLength

\* C29: in every state of a decode, whatever the input bytes and the output
\* capacity, each input position read is below the input length, each output
\* position written is below the capacity, each position read through a back
\* reference is >= 0 and already written, and the count returned is at most
\* the capacity
C29_DecoderInBounds ==
    /\ (lzPc = "decode" /\ LoopCond(lzIn, lzCap, lzIp, lzOp))
            => /\ \A k \in InputReads(lzIn, lzCap, lzIp, lzOp) :
                     0 <= k /\ k < Len(lzIn)
               /\ \A k \in OutputWrites(lzIn, lzCap, lzBuf, lzIp, lzOp) :
                     0 <= k /\ k < lzCap
               /\ \A rd \in BackRefOutputReads(lzIn, lzCap, lzBuf, lzIp, lzOp) :
                     0 <= rd[1] /\ rd[1] < rd[2]
    /\ lzPc \in {"decode", "done"} => (lzIp <= Len(lzIn) /\ lzOp <= lzCap)
    /\ lzPc = "done" => lzRet <= lzCap

\* the stream 0 1 224 0 ends right after the extension byte of its back
\* reference: the decoder has returned 0 at that point
C29_Witness ==
    /\ lzMode = "raw" /\ lzIn = <<0, 1, 224, 0>> /\ lzCap = MaxRawCap
    /\ lzPc = "done" /\ lzRet = 0
    /\ lzIp = 2 /\ lzOp = 1

\* the file's first four bytes are LASF, its version bytes 1 and >= 2
FileSignatureOk == Len(lasData) >= 4 /\ SubSeq(lasData, 1, 4) = <<76, 65, 83, 70>>

FileVersionOk == Len(lasData) >= 26 /\ lasData[25] = 1 /\ lasData[26] >= 2

\* C22: isValid() is true exactly for the signature LASF with versionMajor 1
\* and versionMinor >= 2, and loadLAS returns an empty collection for every
\* file whose signature or version fails that test
C22_SignatureAndVersion ==
    lasPc = "done"
        => /\ parseHeader(lasData).ok
                => (isValidLAS(parseHeader(lasData).header)
                        <=> (FileSignatureOk /\ FileVersionOk))
           /\ ~(FileSignatureOk /\ FileVersionOk)
                => (~lasOk /\ lasCloud = EmptyCloud)

\* loadLAS has refused a version 1.1 file that holds one whole record
C22_Witness ==
    /\ lasPc = "done" /\ ~lasOwn
    /\ FileSignatureOk /\ lasData[25] = 1 /\ lasData[26] = 1
    /\ lasHdr.legacyNumberOfPointRecords = 1
    /\ Len(lasData) = lasHdr.offsetToPointData + lasHdr.pointDataRecordLength
    /\ ~lasOk /\ lasCloud = EmptyCloud

(***************************************************************************)
(* Claims on the LAS point.                                                *)
(***************************************************************************)
\* C21: after setReturnInfo(rn, nr, scanDir, edge) with rn and nr in 0..15 the
\* four getters return rn, nr, scanDir and edge, and the packed byte is
\* (rn & 0x0F) | ((nr & 0x0F) << 4) whatever the two flags are
C21_ReturnInfoRoundTrip ==
    (ptArgs.called /\ ptArgs.returnNum \in 0..15 /\ ptArgs.numReturns \in 0..15)
        => /\ getReturnNumber(ptPoint) = ptArgs.returnNum
           /\ getNumberOfReturns(ptPoint) = ptArgs.numReturns
           /\ getScanDirection(ptPoint) = ptArgs.scanDir
           /\ getEdgeOfFlightLine(ptPoint) = ptArgs.edgeOfFlight
           /\ ptPoint.returnInfo = ptArgs.returnNum + 16 * ptArgs.numReturns
           /\ \A scanDir \in BOOLEAN, edge \in BOOLEAN :
                 setReturnInfo(DefaultLASPoint, ptArgs.returnNum, ptArgs.numReturns,
                               scanDir, edge).returnInfo = ptPoint.returnInfo

\* setReturnInfo(2, 3, true, false) has been called, as in the unit test
C21_Witness ==
    /\ ptArgs.called /\ ptArgs.returnNum = 2 /\ ptArgs.numReturns = 3
    /\ ptArgs.scanDir /\ ~ptArgs.edgeOfFlight
    /\ ptPoint.returnInfo = 50
====
